---- MODULE Spec2Model ----
(***************************************************************************)
(* Verification model of the BuildCores render client: the render-input    *)
(* equality that gates fetching (useSpriteRender / useBuildRender), the    *)
(* fetch life cycle of the useSpriteRender hook as driven by BuildRender,  *)
(* and the job-creation / poll loop of renderBuild and renderByShareCode.  *)
(*                                                                         *)
(* The specifications share the variables below:                           *)
(*   Spec        - useSpriteRender as BuildRender drives it (renders,      *)
(*                 fetches, object URLs)                                   *)
(*   SpecApi     - one call of renderBuild / renderByShareCode, with the   *)
(*                 clock read by the poll loop                             *)
(*   SpecApiFair - SpecApi with every request answered and timer fired     *)
(*   SpecEq      - areInputsEqual / arePartsEqual on pairs of inputs       *)
(*   SpecViewer  - the whole BuildRender: Spec's renders and fetches with  *)
(*                 image loading, gestures, idle animation and drawing     *)
(*   SpecIncomplete - Spec, also rendered without parts and share code     *)
(*   SpecMath    - the pure functions: the bounce and spin drivers, the    *)
(*                 circular frame of a drag, the source rectangle of draw  *)
(***************************************************************************)
EXTENDS Integers, Sequences, FiniteSets, TLC

VARIABLES
    \* ---- SpecEq: the pure equality functions ----
    eqPc,               \* "start" | "done"
    eqA, eqB,           \* the two render inputs compared
    eqResult,           \* areInputsEqual(eqA, eqB) once eqPc = "done"
    eqPartsResult,      \* arePartsEqual(eqA.parts, eqB.parts) once "done"
    \* ---- Spec: BuildRender + useSpriteRender ----
    mounted,            \* has the component rendered at least once
    props,              \* props of the latest render of BuildRender
    previousInputRef,   \* useSpriteRender: previousInputRef.current
    spriteSrc,          \* useState spriteSrc
    spriteMetadata,     \* useState spriteMetadata
    renderError,        \* useState renderError
    isRenderingSprite,  \* useState isRenderingSprite
    fetches,            \* every fetchRenderSprite call so far, in issue order
    lastRequest,        \* the latest render request sent (None before any)
    lastBody,           \* the JSON body of that request
    unmounted,          \* has the component been unmounted
    revoked,            \* URL.revokeObjectURL calls so far, per object URL
    \* ---- SpecViewer: the rest of BuildRender ----
    img,                \* useState img: the src of the loaded Image, or Null
    loadingImg,         \* src of the Image whose onload / onerror are attached
    isLoading,          \* useState isLoading
    bouncingAllowed,    \* useState bouncingAllowed
    timers,             \* pending setTimeout(..., 2000) callbacks
    hasDragged,         \* useSpriteScrubbing: hasDragged.current
    isDragging,         \* useSpriteScrubbing: useState isDragging
    dragStartFrame,     \* useSpriteScrubbing: useState dragStartFrame
    currentFrame,       \* useSpriteScrubbing: currentFrame.current
    frameRef,           \* BuildRender: frameRef.current
    progressValue,      \* useBouncePatternProgress: value, in thousandths
    isBouncing,         \* useBouncePatternProgress: isBouncing
    bounceStart,        \* useBouncePatternProgress: start.current !== null
    spinResult,         \* useContinuousSpin: result
    spinStart,          \* useContinuousSpin: startTime.current !== null
    lastDraw,           \* arguments of the latest ctx.drawImage (None before)
    \* ---- SpecMath: the pure functions ----
    mathFn,             \* the function applied
    mathArg,            \* its arguments
    mathOut,            \* its result (None before it is applied)
    \* ---- SpecZoom: useZoomPan as BuildRender calls it (hundredths) ----
    zoom,               \* the zoom prop, passed as initialScale
    scale,              \* const [scale, setScale] = useState(initialScale)
    scaleRef,           \* scaleRef.current
    isPinching,         \* a two-finger gesture is in progress
    pinchDataRef,       \* {initialDistance, initialScale} of the gesture
    \* ---- SpecApi: one renderBuild / renderByShareCode call ----
    apiPc,              \* position in the async function
    apiCall,            \* the call's arguments
    now,                \* Date.now(), in ms since the call was made
    start,              \* const start = Date.now()
    createResponse,     \* the answer to the job-creation POST (None before)
    jobId,              \* job_id of the creation response
    lastStatus,         \* the latest status response (None before the first)
    pollCount,          \* number of status requests issued
    apiResult           \* how the call settled

eqVars   == <<eqPc, eqA, eqB, eqResult, eqPartsResult>>
hookVars == <<mounted, props, previousInputRef, spriteSrc, spriteMetadata,
              renderError, isRenderingSprite, fetches, lastRequest, lastBody,
              unmounted, revoked>>
apiVars  == <<apiPc, apiCall, now, start, createResponse, jobId, lastStatus,
              pollCount, apiResult>>
viewVars == <<img, loadingImg, isLoading, bouncingAllowed, timers, hasDragged,
              isDragging, dragStartFrame, currentFrame, frameRef,
              progressValue, isBouncing, bounceStart, spinResult, spinStart,
              lastDraw>>
mathVars == <<mathFn, mathArg, mathOut>>
zoomVars == <<zoom, scale, scaleRef, isPinching, pinchDataRef>>
vars     == <<eqVars, hookVars, apiVars, viewVars, mathVars, zoomVars>>

-----------------------------------------------------------------------------
(* Values.  JavaScript undefined / null are the strings below; every scalar *)
(* option is carried as a string so that === is plain equality.            *)

Undef == "undefined"
Null  == "null"

\* Bounds of the model
MaxIds == 2             \* longest part-ID array per category

\* PartCategory (types.ts); the model carries two of the nine categories
Categories == {"CPU", "GPU"}
PartIds    == {"a", "b"}

RECURSIVE SeqsUpTo(_, _)
SeqsUpTo(S, n) ==
    IF n = 0 THEN {<<>>}
    ELSE LET shorter == SeqsUpTo(S, n - 1)
         IN  shorter \cup {Append(s, x) : s \in {t \in shorter : Len(t) = n - 1}, x \in S}

Range(s) == {s[i] : i \in 1..Len(s)}

IdArrays == SeqsUpTo(PartIds, MaxIds)

\* A parts object { CPU: [...], GPU: [...] } is the sequence of its
\* <<key, array>> entries in insertion order; keys are distinct.
PartsObjects ==
    {<<>>}
    \cup {<<(<<c, ids>>)>> : c \in Categories, ids \in IdArrays}
    \cup {<<(<<cc[1], i1>>), (<<cc[2], i2>>)>> :
            cc \in {x \in Categories \X Categories : x[1] # x[2]},
            i1 \in IdArrays, i2 \in IdArrays}

HasKey(obj, k) == \E i \in 1..Len(obj) : obj[i][1] = k
Get(obj, k)    == obj[CHOOSE i \in 1..Len(obj) : obj[i][1] = k][2]

\* parts.parts[category] || []
ArrOrEmpty(partsObj, category) ==
    IF HasKey(partsObj, category) THEN Get(partsObj, category) ELSE <<>>

-----------------------------------------------------------------------------
(* arePartsEqual (useBuildRender.ts).  A RenderBuildRequest is a record    *)
(* [parts, format, width, height, profile].                                *)

arePartsEqual(parts1, parts2) ==
    \A category \in Categories :
        LET arr1 == ArrOrEmpty(parts1.parts, category)
            arr2 == ArrOrEmpty(parts2.parts, category)
            set1 == Range(arr1)
            set2 == Range(arr2)
        IN  /\ Len(arr1) = Len(arr2)
            /\ Cardinality(set1) = Cardinality(set2)
            /\ \A id \in set1 : id \in set2

\* JSON.stringify of a gridSettings object: entries in insertion order,
\* entries whose value is undefined are left out.
JSONstringify(obj) == SelectSeq(obj, LAMBDA e : e[2] # Undef)

\* An optional object (T | undefined | null) is <<>> when absent and <<obj>>
\* when present.
None      == <<>>
Some(x)   == <<x>>
IsSome(o) == Len(o) > 0

\* gridSettings ?? {}
GridOrEmpty(input) ==
    IF IsSome(input.gridSettings) THEN input.gridSettings[1] ELSE <<>>

\* areInputsEqual (useSpriteRender), for a non-null a
areInputsEqualRec(a, b) ==
    IF a.type # b.type THEN FALSE
    ELSE IF a.type = "shareCode" /\ b.type = "shareCode" THEN
        LET gridSettingsEqual ==
                JSONstringify(GridOrEmpty(a)) = JSONstringify(GridOrEmpty(b))
        IN  /\ a.shareCode = b.shareCode
            /\ a.profile = b.profile
            /\ a.showGrid = b.showGrid
            /\ a.cameraOffsetX = b.cameraOffsetX
            /\ a.cameraZoom = b.cameraZoom
            /\ a.frameQuality = b.frameQuality
            /\ gridSettingsEqual
    ELSE IF a.type = "parts" /\ b.type = "parts" THEN
        LET gridSettingsEqual ==
                JSONstringify(GridOrEmpty(a)) = JSONstringify(GridOrEmpty(b))
        IN  /\ arePartsEqual(a.parts, b.parts)
            /\ a.showGrid = b.showGrid
            /\ a.cameraOffsetX = b.cameraOffsetX
            /\ a.cameraZoom = b.cameraZoom
            /\ a.frameQuality = b.frameQuality
            /\ gridSettingsEqual
    ELSE FALSE

\* areInputsEqual(previousInputRef.current, b): `if (!a) return false`
areInputsEqual(a, b) ==
    IF ~IsSome(a) THEN FALSE ELSE areInputsEqualRec(a[1], b)

-----------------------------------------------------------------------------
(* Render inputs.  RenderBuildRequest (types.ts) and SpriteRenderInput     *)
(* (useSpriteRender); a field that a variant does not have is Undef.       *)

MkRequest(partsObj, width, height, profile) ==
    [parts |-> partsObj, width |-> width, height |-> height, profile |-> profile]

NoRequest == MkRequest(<<>>, Undef, Undef, Undef)

\* hasParts: the parts field holds a request (it is undefined when BuildRender
\* is given no parts prop: parts: parts!)
PartsInput(req, o) ==
    [type |-> "parts", parts |-> req, hasParts |-> TRUE,
     shareCode |-> Undef, profile |-> Undef,
     showGrid |-> o.showGrid, cameraOffsetX |-> o.cameraOffsetX,
     cameraZoom |-> o.cameraZoom, gridSettings |-> o.gridSettings,
     frameQuality |-> o.frameQuality]

ShareCodeInput(code, profile, o) ==
    [type |-> "shareCode", parts |-> NoRequest, hasParts |-> FALSE,
     shareCode |-> code, profile |-> profile,
     showGrid |-> o.showGrid, cameraOffsetX |-> o.cameraOffsetX,
     cameraZoom |-> o.cameraZoom, gridSettings |-> o.gridSettings,
     frameQuality |-> o.frameQuality]

\* Values the options range over
ShowGridVals      == {Undef, "true"}
CameraOffsetXVals == {"0", "0.1"}
CameraZoomVals    == {Undef, "1.5"}
FrameQualityVals  == {Undef, "standard", "high"}
WidthVals         == {Undef, "512"}
HeightVals        == {Undef, "1024"}
ProfileVals       == {Undef, "fast"}
GridSettingsVals  == {None, Some(<<(<<"color", "#fff">>)>>)}
ShareCodes        == {"s1", "s2"}

Options ==
    [showGrid : ShowGridVals, cameraOffsetX : CameraOffsetXVals,
     cameraZoom : CameraZoomVals, gridSettings : GridSettingsVals,
     frameQuality : FrameQualityVals]

NoOptions ==
    [showGrid |-> Undef, cameraOffsetX |-> Undef, cameraZoom |-> Undef,
     gridSettings |-> None, frameQuality |-> Undef]

BaseParts == <<(<<"CPU", <<"a">> >>), (<<"GPU", <<"b">> >>)>>

-----------------------------------------------------------------------------
(* SpecEq: the equality functions applied to pairs of render inputs.       *)

\* parts inputs over every parts object, options left out
EqInputsP ==
    {PartsInput(MkRequest(p, Undef, Undef, Undef), NoOptions) : p \in PartsObjects}

\* inputs over every option combination, the parts / share code fixed
EqInputsO ==
    {PartsInput(MkRequest(BaseParts, w, h, pr), o) :
        w \in WidthVals, h \in HeightVals, pr \in ProfileVals, o \in Options}
    \cup {ShareCodeInput(c, pr, o) :
        c \in ShareCodes, pr \in ProfileVals, o \in Options}

\* gridSettings objects as written by the caller: up to two of the fields, in
\* either order of writing
GridFields == {"cellThickness", "color"}
GridValues == {"1", "2"}
GridObjects ==
    {<<>>}
    \cup {<<(<<k, v>>)>> : k \in GridFields, v \in GridValues}
    \cup {<<(<<k[1], v1>>), (<<k[2], v2>>)>> :
             k \in {<<"cellThickness", "color">>, <<"color", "cellThickness">>},
             v1 \in GridValues, v2 \in GridValues}

\* obj[field] of a gridSettings object
GridField(obj, field) ==
    IF \E i \in 1..Len(obj) : obj[i][1] = field
    THEN obj[CHOOSE i \in 1..Len(obj) : obj[i][1] = field][2]
    ELSE Undef

\* inputs that differ in gridSettings only
EqInputsG ==
    {PartsInput(MkRequest(BaseParts, Undef, Undef, Undef),
                [NoOptions EXCEPT !.gridSettings = g]) :
        g \in {None} \cup {Some(o) : o \in GridObjects}}
    \cup {ShareCodeInput("s1", Undef, [NoOptions EXCEPT !.gridSettings = g]) :
        g \in {None} \cup {Some(o) : o \in GridObjects}}

\* the scalar composition / quality options of an input, by name
ScalarNames ==
    {"width", "height", "profile", "showGrid", "cameraOffsetX", "cameraZoom",
     "frameQuality"}

Scalar(input, name) ==
    CASE name = "width"         -> input.parts.width
      [] name = "height"        -> input.parts.height
      [] name = "profile"       -> IF input.type = "parts"
                                   THEN input.parts.profile ELSE input.profile
      [] name = "showGrid"      -> input.showGrid
      [] name = "cameraOffsetX" -> input.cameraOffsetX
      [] name = "cameraZoom"    -> input.cameraZoom
      [] name = "frameQuality"  -> input.frameQuality

DifferingScalars(a, b) == {n \in ScalarNames : Scalar(a, n) # Scalar(b, n)}

\* the inputs an input is compared with
EqPartners(a) ==
    (IF a \in EqInputsG THEN {b \in EqInputsG : b.type = a.type} ELSE {})
    \cup (IF a \in EqInputsP THEN EqInputsP
          ELSE IF a \in EqInputsO
          THEN {b \in EqInputsO : Cardinality(DifferingScalars(a, b)) <= 1}
          ELSE {})

EqInit ==
    /\ eqPc = "start"
    /\ eqA \in EqInputsP \cup EqInputsO \cup EqInputsG
    /\ eqB \in EqPartners(eqA)
    /\ eqResult = FALSE
    /\ eqPartsResult = FALSE

Compare ==
    /\ eqPc = "start"
    /\ eqPc' = "done"
    /\ eqResult' = areInputsEqual(Some(eqA), eqB)
    /\ eqPartsResult' = arePartsEqual(eqA.parts, eqB.parts)
    /\ UNCHANGED <<eqA, eqB>>

EqNext == Compare

-----------------------------------------------------------------------------
(* SpecApi: one call of renderBuild / renderByShareCode (api.ts).          *)

DefaultPollIntervalMs == 1500
DefaultTimeoutMs      == 120000

\* time an HTTP request takes to answer, and time by which a timer fires
\* late, in ms
Latencies == {0, 60000}
Lateness  == {0, 60000}

\* The calls made: fetchRenderSprite's two calls, which pass no polling
\* options, and calls of an application with short polling options.
\* options?.pollIntervalMs / options?.timeoutMs are None when not passed.
ApiCalls ==
    [fn : {"renderBuild", "renderByShareCode"}, format : {"sprite"},
     pollIntervalMs : {None}, timeoutMs : {None}]
    \cup
    [fn : {"renderBuild", "renderByShareCode"},
     format : {Undef, "video", "sprite"},
     pollIntervalMs : {Some(3000)}, timeoutMs : {Some(0), Some(6000)}]

\* options?.pollIntervalMs ?? 1500 ; options?.timeoutMs ?? 120_000
pollIntervalMs(call) ==
    IF IsSome(call.pollIntervalMs) THEN call.pollIntervalMs[1]
    ELSE DefaultPollIntervalMs

\* timeoutMs computed with || in place of ??: a timeout of 0 reads as unset
timeoutMsOrDefault(call) ==
    IF IsSome(call.timeoutMs) /\ call.timeoutMs[1] # 0
    THEN call.timeoutMs[1] ELSE DefaultTimeoutMs

timeoutMs(call) ==
    IF IsSome(call.timeoutMs) THEN call.timeoutMs[1] ELSE DefaultTimeoutMs

\* JavaScript truthiness of a string | null | undefined
Truthy(x) == x \notin {Undef, Null, ""}

\* a || b
Or(a, b) == IF Truthy(a) THEN a ELSE b

\* response.ok
Ok(http) == http >= 200 /\ http <= 299

\* `${response.status} ${response.statusText}`
HttpText(http) ==
    CASE http = 200 -> "200 OK"
      [] http = 404 -> "404 Not Found"
      [] http = 500 -> "500 Internal Server Error"

\* answers of the server to the job-creation POST
CreateResponses ==
    [http : {200, 404, 500}, job_id : {Undef, "", "j1"}]

\* answers of the server to GET /render-build/{job_id}
StatusBodies ==
    [status : {"queued", "processing"}, url : {Null}, video_url : {Null},
     sprite_url : {Null}, error : {Null}]
    \cup [status : {"completed"}, url : {Null, "U"}, video_url : {Null, "", "V"},
          sprite_url : {Null, "", "S"}, error : {Null}]
    \cup [status : {"error"}, url : {Null}, video_url : {Null},
          sprite_url : {Null}, error : {Null, "", "boom"}]

StatusResponses == [http : {200, 404, 500}, body : StatusBodies]

Pending      == [kind |-> "pending", value |-> ""]
Resolved(u)  == [kind |-> "resolved", value |-> u]
Rejected(m)  == [kind |-> "rejected", value |-> m]

\* CreateError without the job_id check
CreateErrorNoJobIdCheck(fn, resp) ==
    IF fn = "renderByShareCode" /\ resp.http = 404 THEN "Build not found"
    ELSE IF ~Ok(resp.http) THEN "Create render job failed: " \o HttpText(resp.http)
    ELSE ""

\* createRenderBuildJob / createRenderByShareCodeJob after the POST answered:
\* the error thrown, or "" when the job_id is returned
CreateError(fn, resp) ==
    IF fn = "renderByShareCode" /\ resp.http = 404 THEN "Build not found"
    ELSE IF ~Ok(resp.http) THEN "Create render job failed: " \o HttpText(resp.http)
    ELSE IF ~Truthy(resp.job_id)
         THEN "Create render job failed: missing job_id in response"
    ELSE ""

\* getRenderBuildStatus after the GET answered: the error thrown, or ""
StatusError(resp) ==
    IF resp.http = 404 THEN "Render job not found"
    ELSE IF ~Ok(resp.http)
         THEN "Get render job status failed: " \o HttpText(resp.http)
    ELSE ""

\* requestedFormat = request.format ?? "video"
RequestedFormat(call) == IF call.format = Undef THEN "video" ELSE call.format

\* FinalUrl that takes the video URL whatever the requested format
FinalUrlAnyFormat(call, body) == Or(Or(body.video_url, body.url), Undef)

\* finalUrl of the poll loop for a completed status
FinalUrl(call, body) ==
    IF RequestedFormat(call) = "sprite"
    THEN Or(Or(body.sprite_url, body.url), Undef)
    ELSE Or(Or(body.video_url, body.url), Undef)

ApiInit ==
    /\ apiPc = "creating"
    /\ apiCall \in ApiCalls
    /\ now = 0
    /\ start = 0
    /\ createResponse = None
    /\ jobId = Undef
    /\ lastStatus = None
    /\ pollCount = 0
    /\ apiResult = Pending

\* LoopBody that does not stop on an error status
LoopBodyErrorNotTerminal(call, body, elapsed) ==
    IF body.status = "completed"
    THEN IF ~Truthy(FinalUrl(call, body))
         THEN Rejected("Render job completed but no URL returned")
         ELSE Resolved(FinalUrl(call, body))
    ELSE IF elapsed > timeoutMs(call)
    THEN Rejected("Timed out waiting for render job to complete")
    ELSE Pending

\* LoopBody that passes the server's error field on as it is, and resolves
\* with whatever URL field it finds
LoopBodyNoFallback(call, body, elapsed) ==
    IF body.status = "completed"
    THEN Resolved(FinalUrl(call, body))
    ELSE IF body.status = "error"
    THEN Rejected(body.error)
    ELSE IF elapsed > timeoutMs(call)
    THEN Rejected("Timed out waiting for render job to complete")
    ELSE Pending

\* LoopBody that evaluates the timeout before it looks at the status
LoopBodyTimeoutFirst(call, body, elapsed) ==
    IF elapsed > timeoutMs(call)
    THEN Rejected("Timed out waiting for render job to complete")
    ELSE IF body.status = "completed"
    THEN IF ~Truthy(FinalUrl(call, body))
         THEN Rejected("Render job completed but no URL returned")
         ELSE Resolved(FinalUrl(call, body))
    ELSE IF body.status = "error"
    THEN Rejected(Or(body.error, "Render job failed"))
    ELSE Pending

\* the body of the poll loop after a status response, elapsed being
\* Date.now() - start: how the call settles, or Pending when the loop goes
\* on to sleep
LoopBody(call, body, elapsed) ==
    IF body.status = "completed"
    THEN IF ~Truthy(FinalUrl(call, body))
         THEN Rejected("Render job completed but no URL returned")
         ELSE Resolved(FinalUrl(call, body))
    ELSE IF body.status = "error"
    THEN Rejected(Or(body.error, "Render job failed"))
    ELSE IF elapsed > timeoutMs(call)
    THEN Rejected("Timed out waiting for render job to complete")
    ELSE Pending

\* the job-creation POST answers after d ms; on success the loop starts and
\* issues the first status request
CreateResponds(resp, d) ==
    /\ apiPc = "creating"
    /\ now' = now + d
    /\ createResponse' = Some(resp)
    /\ LET err == CreateError(apiCall.fn, resp)
       IN  IF err # ""
           THEN /\ apiPc' = "done"
                /\ apiResult' = Rejected(err)
                /\ UNCHANGED <<start, jobId, pollCount>>
           ELSE /\ jobId' = resp.job_id
                /\ start' = now'
                /\ pollCount' = pollCount + 1
                /\ apiPc' = "polling"
                /\ UNCHANGED apiResult
    /\ UNCHANGED <<apiCall, lastStatus>>

\* the status GET answers after d ms: one pass through the loop body, up to
\* the call of sleep
PollResponds(resp, d) ==
    /\ apiPc = "polling"
    /\ now' = now + d
    /\ LET err == StatusError(resp)
           outcome == LoopBody(apiCall, resp.body, now' - start)
       IN  IF err # ""
           THEN /\ apiPc' = "done"
                /\ apiResult' = Rejected(err)
                /\ UNCHANGED lastStatus
           ELSE /\ lastStatus' = Some(resp.body)
                /\ apiResult' = outcome
                /\ apiPc' = IF outcome = Pending THEN "sleeping" ELSE "done"
    /\ UNCHANGED <<apiCall, start, createResponse, jobId, pollCount>>

\* sleep(pollIntervalMs) resolves, d ms late, and the loop issues the next
\* status request
SleepDone(d) ==
    /\ apiPc = "sleeping"
    /\ now' = now + pollIntervalMs(apiCall) + d
    /\ pollCount' = pollCount + 1
    /\ apiPc' = "polling"
    /\ UNCHANGED <<apiCall, start, createResponse, jobId, lastStatus, apiResult>>

ApiNext ==
    \/ \E resp \in CreateResponses, d \in Latencies : CreateResponds(resp, d)
    \/ \E resp \in StatusResponses, d \in Latencies : PollResponds(resp, d)
    \/ \E d \in Lateness : SleepDone(d)

-----------------------------------------------------------------------------
(* Spec: BuildRender rendering with changing props, and the fetches of     *)
(* useSpriteRender it causes.                                              *)

\* Bounds of the model
MaxFetches == 2         \* fetchRenderSprite calls per instance

\* the RenderBuildRequest objects the embedding application passes
ReorderedParts == <<(<<"GPU", <<"b">> >>), (<<"CPU", <<"a">> >>)>>
OtherParts     == <<(<<"CPU", <<"b">> >>)>>

HighOptions == [NoOptions EXCEPT !.frameQuality = "high"]

\* every composition / quality option given
FullOptions ==
    [showGrid |-> "true", cameraOffsetX |-> "0.1", cameraZoom |-> "1.5",
     gridSettings |-> Some(<<(<<"color", "#fff">>)>>), frameQuality |-> "high"]

\* BuildRenderProps, as far as rendering is concerned.  partsRef and
\* apiConfigRef are the identities of the parts and apiConfig objects;
\* animationMode and interactive carry their defaults.
MkProps(shareCode, partsObj, partsRef, options, mode, apiConfigRef) ==
    [shareCode |-> shareCode,
     parts |-> MkRequest(partsObj, Undef, Undef, Undef), partsRef |-> partsRef,
     options |-> options, mode |-> mode, apiConfigRef |-> apiConfigRef,
     animationMode |-> "bounce", interactive |-> TRUE]

InitialProps == MkProps(Undef, BaseParts, 1, NoOptions, Undef, 1)

\* partsRef of props without a parts prop (parts?: RenderBuildRequest)
NoPartsRef == 0

\* props with neither parts nor shareCode
NoPartsProps(mode) == MkProps(Undef, <<>>, NoPartsRef, NoOptions, mode, 1)

\* props whose parts request carries width, height and profile, with every
\* option given
SizedProps(shareCode, mode) ==
    [MkProps(shareCode, BaseParts, 4, FullOptions, mode, 1)
        EXCEPT !.parts = MkRequest(BaseParts, "512", "1024", "fast")]

\* the props the embedding application renders BuildRender with
PropsPool ==
    {InitialProps,
     MkProps(Undef, ReorderedParts, 2, NoOptions, Undef, 1),
     MkProps(Undef, OtherParts, 3, NoOptions, Undef, 1),
     MkProps(Undef, BaseParts, 1, NoOptions, Undef, 2),
     MkProps(Undef, BaseParts, 1, NoOptions, "experimental", 1),
     MkProps(Undef, BaseParts, 1, HighOptions, Undef, 1),
     MkProps("", BaseParts, 1, NoOptions, Undef, 1),
     MkProps("", BaseParts, 1, NoOptions, "experimental", 1),
     MkProps("s1", BaseParts, 1, NoOptions, Undef, 1),
     MkProps("s1", BaseParts, 1, NoOptions, "experimental", 1),
     MkProps("s1", OtherParts, 3, HighOptions, Undef, 1),
     MkProps(Undef, OtherParts, 3, NoOptions, "experimental", 1),
     SizedProps(Undef, Undef),
     SizedProps(Undef, "experimental"),
     SizedProps("s1", Undef)}

\* renderInput (BuildRender.tsx): the share code is preferred
renderInput(p) ==
    IF Truthy(p.shareCode)
    THEN ShareCodeInput(p.shareCode, p.parts.profile, p.options)
    ELSE IF p.partsRef = NoPartsRef
         THEN [PartsInput(NoRequest, p.options) EXCEPT !.hasParts = FALSE]
    ELSE PartsInput(p.parts, p.options)

\* useMemo dependencies of renderInput changed between two renders
renderInputChanged(old, new) ==
    \/ old.shareCode # new.shareCode
    \/ old.partsRef # new.partsRef
    \/ old.options # new.options

\* useCallback dependencies of fetchRenderSprite changed
fetchRenderSpriteChanged(old, new) ==
    \/ old.apiConfigRef # new.apiConfigRef
    \/ old.mode # new.mode

\* EndpointOf with the mode flag tested before the input's variant
EndpointOfModeFirst(input, mode) ==
    IF (IF mode = Undef THEN "async" ELSE mode) = "experimental"
    THEN "/render-build-experimental"
    ELSE IF input.type = "shareCode" THEN "/render-by-share-code"
    ELSE "/render-build"

\* the render request fetchRenderSprite issues for an input
EndpointOf(input, mode) ==
    IF input.type = "shareCode" THEN "/render-by-share-code"
    ELSE IF (IF mode = Undef THEN "async" ELSE mode) = "experimental"
         THEN "/render-build-experimental"
    ELSE "/render-build"

FetchRequest(input, mode) ==
    [method |-> "POST", endpoint |-> EndpointOf(input, mode),
     shareCode |-> IF input.type = "shareCode" THEN input.shareCode ELSE Undef,
     parts |-> IF input.type = "parts" /\ input.hasParts
               THEN Some(input.parts.parts) ELSE None]

\* x ? { key: x } : {} for a string x: the key is left out (Undef) when x is
\* falsy.  x !== undefined ? { key: x } : {} keeps x as it is.
IfTruthy(x) == IF Truthy(x) THEN x ELSE Undef

\* the request object fetchRenderSprite passes to renderBuild and
\* renderSpriteExperimental: { ...currentParts, format, showGrid, ... }
\* (renderSpriteExperimental sets the format itself)
SpreadRequest(input) ==
    [parts |-> IF input.hasParts THEN Some(input.parts.parts) ELSE None,
     shareCode |-> Undef,
     format |-> "sprite",
     width |-> input.parts.width, height |-> input.parts.height,
     profile |-> input.parts.profile,
     showGrid |-> input.showGrid, cameraOffsetX |-> input.cameraOffsetX,
     cameraZoom |-> input.cameraZoom, gridSettings |-> input.gridSettings,
     frameQuality |-> input.frameQuality]

\* body of createRenderBuildJob (api.ts) for a request
createRenderBuildJobBody(request) ==
    [parts |-> request.parts, shareCode |-> Undef,
     format |-> IfTruthy(request.format),
     width |-> request.width, height |-> request.height,
     profile |-> IfTruthy(request.profile),
     showGrid |-> request.showGrid, cameraOffsetX |-> request.cameraOffsetX,
     cameraZoom |-> Undef,
     gridSettings |-> request.gridSettings,
     frameQuality |-> IfTruthy(request.frameQuality)]

\* body of renderSpriteExperimental (api.ts): { ...request, format: "sprite" }
renderSpriteExperimentalBody(request) ==
    [request EXCEPT !.format = "sprite"]

\* body of createRenderByShareCodeJob (api.ts) for the options
\* fetchRenderSprite passes to renderByShareCode (no width, no height)
createRenderByShareCodeJobBody(input) ==
    [parts |-> None, shareCode |-> input.shareCode,
     format |-> IfTruthy("sprite"),
     width |-> Undef, height |-> Undef,
     profile |-> IfTruthy(input.profile),
     showGrid |-> input.showGrid, cameraOffsetX |-> input.cameraOffsetX,
     cameraZoom |-> Undef,
     gridSettings |-> input.gridSettings,
     frameQuality |-> IfTruthy(input.frameQuality)]

\* the JSON body of the request fetchRenderSprite issues for an input
RequestBody(input, mode) ==
    IF input.type = "shareCode" THEN createRenderByShareCodeJobBody(input)
    ELSE IF (IF mode = Undef THEN "async" ELSE mode) = "experimental"
         THEN renderSpriteExperimentalBody(SpreadRequest(input))
    ELSE createRenderBuildJobBody(SpreadRequest(input))

\* URLs handed out to the successive fetches: the URL the server returns for
\* a job, and the object URL created for a blob
JobUrls  == <<"https://cdn/1", "https://cdn/2", "https://cdn/3",
              "https://cdn/4", "https://cdn/5">>
BlobUrls == <<"blob:1", "blob:2", "blob:3", "blob:4", "blob:5">>

\* messages a render call can fail with
FailureMessages ==
    {"Render job failed", "Timed out waiting for render job to complete"}

Metadata(cols, rows, totalFrames) ==
    [cols |-> cols, rows |-> rows, totalFrames |-> totalFrames]

\* rows = frameQuality === 'high' ? 12 : 6
RowsOf(input) == IF input.frameQuality = "high" THEN 12 ELSE 6

\* metadata of renderSpriteExperimental's response (api.ts)
ExperimentalMetadata == Metadata(12, 6, 72)

\* a || b on numbers
OrNum(a, b) == IF a # 0 THEN a ELSE b

\* the metadata fetchRenderSprite publishes on success of a fetch
PublishedMetadata(f) ==
    IF f.endpoint = "/render-build-experimental"
    THEN Metadata(OrNum(ExperimentalMetadata.cols, 12),
                  OrNum(ExperimentalMetadata.rows, f.rows),
                  OrNum(ExperimentalMetadata.totalFrames, 12 * f.rows))
    ELSE Metadata(12, f.rows, 12 * f.rows)

\* the URL fetchRenderSprite publishes on success of fetch number i
PublishedSrc(f, i) ==
    IF f.endpoint = "/render-build-experimental"
    THEN BlobUrls[i] ELSE JobUrls[i]

\* if (src && src.startsWith("blob:")) URL.revokeObjectURL(src), on the
\* revocations r so far
Revoke(r, src) ==
    IF src \in Range(BlobUrls) THEN [r EXCEPT ![src] = @ + 1] ELSE r

\* the cleanup of the effect on [spriteSrc] in useSpriteRender, run by the
\* commit that changes spriteSrc from old to new
CleanupOnChange(r, old, new) == IF old # new THEN Revoke(r, old) ELSE r

HookInit ==
    /\ mounted = FALSE
    /\ props = InitialProps
    /\ previousInputRef = None
    /\ spriteSrc = Null
    /\ spriteMetadata = None
    /\ renderError = Null
    /\ isRenderingSprite = FALSE
    /\ fetches = <<>>
    /\ lastRequest = None
    /\ lastBody = None
    /\ unmounted = FALSE
    /\ revoked = [u \in Range(BlobUrls) |-> 0]

\* the synchronous part of fetchRenderSprite(currentInput): the state
\* setters before the first await, and the render request
StartFetch(input, p) ==
    /\ Len(fetches) < MaxFetches
    /\ isRenderingSprite' = TRUE
    /\ renderError' = Null
    /\ fetches' = Append(fetches,
            [endpoint |-> EndpointOf(input, p.mode), rows |-> RowsOf(input),
             state |-> "inflight"])
    /\ lastRequest' = Some(FetchRequest(input, p.mode))
    /\ lastBody' = Some(RequestBody(input, p.mode))
    /\ UNCHANGED <<spriteSrc, spriteMetadata, revoked>>

\* FetchEffect without the equality check: every run of the effect fetches
FetchEffectAlways(p) ==
    /\ previousInputRef' = Some(renderInput(p))
    /\ StartFetch(renderInput(p), p)

\* a fetch effect that fetches again while an error is shown
FetchEffectRetries(p) ==
    IF ~areInputsEqual(previousInputRef, renderInput(p)) \/ Truthy(renderError)
    THEN FetchEffectAlways(p)
    ELSE UNCHANGED <<previousInputRef, spriteSrc, spriteMetadata,
                     renderError, isRenderingSprite, fetches, lastRequest,
                     lastBody, revoked>>

\* the fetch effect of useSpriteRender for the render with props p
FetchEffect(p) ==
    LET normalizedInput == renderInput(p)
        shouldFetch == ~areInputsEqual(previousInputRef, normalizedInput)
    IN  IF shouldFetch
        THEN /\ previousInputRef' = Some(normalizedInput)
             /\ StartFetch(normalizedInput, p)
        ELSE UNCHANGED <<previousInputRef, spriteSrc, spriteMetadata,
                         renderError, isRenderingSprite, fetches, lastRequest,
                         lastBody, revoked>>

\* areInputsEqual(a, b) throws a TypeError: both inputs are of type parts and
\* arePartsEqual reads .parts of a parts field that is undefined
areInputsEqualThrows(a, b) ==
    /\ IsSome(a)
    /\ a[1].type = "parts" /\ b.type = "parts"
    /\ ~a[1].hasParts \/ ~b.hasParts

\* the fetch effect runs in the commit of the render with props p
FetchEffectRuns(p) ==
    \/ ~mounted
    \/ renderInputChanged(props, p)
    \/ fetchRenderSpriteChanged(props, p)

\* BuildRender renders with props p (the first render mounts it); the fetch
\* effect runs when one of its dependencies changed.  An error thrown by the
\* effect is caught by nothing: React unmounts the tree, which runs the
\* cleanups.
Render(p) ==
    /\ ~unmounted
    /\ mounted' = TRUE
    /\ props' = p
    /\ IF FetchEffectRuns(p)
          /\ areInputsEqualThrows(previousInputRef, renderInput(p))
       THEN /\ unmounted' = TRUE
            /\ revoked' = Revoke(revoked, spriteSrc)
            /\ UNCHANGED <<previousInputRef, spriteSrc, spriteMetadata,
                           renderError, isRenderingSprite, fetches,
                           lastRequest, lastBody>>
       ELSE /\ IF FetchEffectRuns(p)
               THEN FetchEffect(p)
               ELSE UNCHANGED <<previousInputRef, spriteSrc, spriteMetadata,
                                renderError, isRenderingSprite, fetches,
                                lastRequest, lastBody, revoked>>
            /\ UNCHANGED unmounted

\* the awaited render call of fetch i resolves: metadata, then the source,
\* then the finally block
FetchResolves(i) ==
    /\ i \in 1..Len(fetches)
    /\ fetches[i].state = "inflight"
    /\ fetches' = [fetches EXCEPT ![i].state = "resolved"]
    /\ IF unmounted
       THEN \* the state setters of an unmounted component do nothing
            UNCHANGED <<spriteMetadata, spriteSrc, isRenderingSprite, revoked>>
       ELSE /\ spriteMetadata' = Some(PublishedMetadata(fetches[i]))
            /\ spriteSrc' = PublishedSrc(fetches[i], i)
            /\ isRenderingSprite' = FALSE
            /\ revoked' = CleanupOnChange(Revoke(revoked, spriteSrc),
                                          spriteSrc, spriteSrc')
    /\ UNCHANGED <<mounted, props, previousInputRef, renderError, lastRequest,
                   lastBody, unmounted>>

\* a catch block that also drops the sprite published before
FetchRejectsDropsSprite(i, message) ==
    /\ i \in 1..Len(fetches)
    /\ fetches[i].state = "inflight"
    /\ fetches' = [fetches EXCEPT ![i].state = "rejected"]
    /\ IF unmounted
       THEN UNCHANGED <<renderError, isRenderingSprite, spriteSrc,
                        spriteMetadata, revoked>>
       ELSE /\ renderError' = message
            /\ isRenderingSprite' = FALSE
            /\ spriteSrc' = Null
            /\ spriteMetadata' = None
            /\ revoked' = CleanupOnChange(revoked, spriteSrc, spriteSrc')
    /\ UNCHANGED <<mounted, props, previousInputRef, lastRequest, lastBody,
                   unmounted>>

\* the awaited render call of fetch i rejects: the catch block, then the
\* finally block
FetchRejects(i, message) ==
    /\ i \in 1..Len(fetches)
    /\ fetches[i].state = "inflight"
    /\ fetches' = [fetches EXCEPT ![i].state = "rejected"]
    /\ IF unmounted
       THEN UNCHANGED <<renderError, isRenderingSprite>>
       ELSE /\ renderError' = message
            /\ isRenderingSprite' = FALSE
    /\ UNCHANGED <<mounted, props, previousInputRef, spriteSrc, spriteMetadata,
                   lastRequest, lastBody, unmounted, revoked>>

\* the component unmounts: the cleanup of the effect on [spriteSrc]
Unmount ==
    /\ mounted
    /\ ~unmounted
    /\ unmounted' = TRUE
    /\ revoked' = Revoke(revoked, spriteSrc)
    /\ UNCHANGED <<mounted, props, previousInputRef, spriteSrc, spriteMetadata,
                   renderError, isRenderingSprite, fetches, lastRequest,
                   lastBody>>

HookNext ==
    \/ \E p \in PropsPool : Render(p)
    \/ \E i \in 1..MaxFetches : FetchResolves(i)
    \/ \E i \in 1..MaxFetches, m \in FailureMessages : FetchRejects(i, m)
    \/ Unmount

-----------------------------------------------------------------------------
(* SpecViewer: BuildRender (BuildRender.tsx) with its image loading,        *)
(* gestures and idle animation.  Frames are carried in tenths of a frame,  *)
(* the bounce value and the spin blend in thousandths.                     *)

\* spriteMetadata ? spriteMetadata.cols : 12, and so on
ColsOf(meta)  == IF IsSome(meta) THEN meta[1].cols ELSE 12
RowsOfMeta(meta) == IF IsSome(meta) THEN meta[1].rows ELSE 6
TotalOf(meta) == IF IsSome(meta) THEN meta[1].totalFrames ELSE 72

\* defaults of the props (BuildRender.tsx)
MouseSensitivityTenths == 2         \* mouseSensitivity = 0.2
SpinDuration           == 10000     \* spinDuration = 10000

\* a % b of JavaScript: the sign of the dividend
JsRem(a, b) == IF a >= 0 THEN a % b ELSE 0 - ((0 - a) % b)

\* calculateCircularFrame (useSpriteScrubbing), frames in tenths and the
\* sensitivity in tenths
calculateCircularFrame(startFrame, deltaX, sensitivityTenths, totalFrames) ==
    LET frameDelta == deltaX * sensitivityTenths
        newFrame   == JsRem(startFrame + frameDelta, totalFrames * 10)
    IN  IF newFrame < 0 THEN newFrame + totalFrames * 10 ELSE newFrame

\* a bounce that plays once: the elapsed time is not taken modulo the cycle
BounceAtOnce(elapsedMs) ==
    [value |-> IF elapsedMs < 500 THEN (elapsedMs * 1000) \div 500
               ELSE IF elapsedMs < 1000
                    THEN 1000 - ((elapsedMs - 500) * 1000) \div 500
               ELSE 0,
     isBouncing |-> elapsedMs < 1000]

\* useBouncePatternProgress: value (thousandths) and isBouncing at the
\* elapsed time t - start.current
BounceAt(elapsedMs) ==
    LET elapsed == elapsedMs % 3000
    IN  [value |-> IF elapsed < 500 THEN (elapsed * 1000) \div 500
                   ELSE IF elapsed < 1000
                        THEN 1000 - ((elapsed - 500) * 1000) \div 500
                   ELSE 0,
         isBouncing |-> elapsed < 1000]

\* a spin whose next frame does not wrap around at the last frame
SpinAtNoWrap(elapsedMs, duration, totalFrames) ==
    LET exactFrame == ((elapsedMs % duration) * totalFrames * 1000) \div duration
        frame == (exactFrame \div 1000) % totalFrames
    IN  [frame |-> frame, nextFrame |-> frame + 1, blend |-> exactFrame % 1000]

\* useContinuousSpin: the result at the elapsed time time - startTime.current
SpinAt(elapsedMs, duration, totalFrames) ==
    LET exactFrame   == ((elapsedMs % duration) * totalFrames * 1000) \div duration
        currentFrame_ == (exactFrame \div 1000) % totalFrames
    IN  [frame |-> currentFrame_,
         nextFrame |-> (currentFrame_ + 1) % totalFrames,
         blend |-> exactFrame % 1000]

\* an auto-rotate effect that takes the bounce value whatever the mode
AutoFrameBounceOnly(animationMode, progress, spin, total) ==
    ((progress * total) \div 500) % (total * 10)

\* the frame of the auto-rotate effect: the spin's frame, or
\* ((progressValue / 5) * total) % total for the bounce
AutoFrame(animationMode, progress, spin, total) ==
    IF animationMode = "spin360" THEN spin.frame * 10
    ELSE ((progress * total) \div 500) % (total * 10)

\* what one render of BuildRender sees of the state
Snapshot(image, meta, loading, p, progress, spin) ==
    [img |-> image, meta |-> meta, isLoading |-> loading,
     interactive |-> p.interactive, animationMode |-> p.animationMode,
     progressValue |-> progress, spinResult |-> spin]

Snap == Snapshot(img, spriteMetadata, isLoading, props, progressValue,
                 spinResult)

\* dependencies of the draw callback, of the auto-rotate effect and of the
\* initial-draw effect, as values of a render
DrawDeps(r) == <<r.img, ColsOf(r.meta), RowsOfMeta(r.meta), TotalOf(r.meta)>>
AutoRotateDeps(r) ==
    <<r.progressValue, r.spinResult, r.img, TotalOf(r.meta), DrawDeps(r),
      r.animationMode, r.interactive>>
InitialDrawDeps(r) == <<r.img, r.isLoading, DrawDeps(r)>>

\* draw(frameIndex) of a render: the image and geometry ctx.drawImage is
\* called with
Draw(r, frameIndex) ==
    Some([img |-> r.img, cols |-> ColsOf(r.meta), rows |-> RowsOfMeta(r.meta),
          totalFrames |-> TotalOf(r.meta), frame |-> frameIndex])

\* a guard of the auto-rotate effect that lets the latch suppress the idle
\* animation whether the viewer is interactive or not
AutoRotateReturnsLatched(r, dragged) ==
    dragged \/ r.img = Null

\* the guard of the auto-rotate effect
AutoRotateReturns(r, dragged) ==
    (r.interactive /\ dragged) \/ r.img = Null

\* The effects of the commit of render r that follows render prev: the
\* auto-rotate effect, then the initial-draw effect; each runs when one of
\* its dependencies changed (forcedAuto: the spin result is a new object;
\* forcedDraw: the zoom scale changed, so draw is a new callback).  Gives
\* frameRef.current and the latest draw afterwards.
Commit(prev, r, forcedAuto, forcedDraw, dragged, frame, drawn) ==
    LET auto    == (forcedAuto \/ forcedDraw
                    \/ AutoRotateDeps(prev) # AutoRotateDeps(r))
                   /\ ~AutoRotateReturns(r, dragged)
        frame1  == IF auto
                   THEN AutoFrame(r.animationMode, r.progressValue,
                                  r.spinResult, TotalOf(r.meta))
                   ELSE frame
        drawn1  == IF auto THEN Draw(r, frame1) ELSE drawn
        initial == (forcedDraw \/ InitialDrawDeps(prev) # InitialDrawDeps(r))
                   /\ r.img # Null /\ ~r.isLoading
        drawn2  == IF initial THEN Draw(r, frame1) ELSE drawn1
    IN  [frameRef |-> frame1, lastDraw |-> drawn2]

loadVars == <<img, loadingImg, isLoading, bouncingAllowed, timers>>
dragVars == <<hasDragged, isDragging, dragStartFrame, currentFrame>>
animVars == <<progressValue, isBouncing, bounceStart, spinResult, spinStart>>

\* Bounds of the model: the elapsed times (ms) the animation frames after a
\* driver's first one are sampled at, and the horizontal displacements (px)
\* of the drag moves (none, and 72 frames: a full turn of a 72-frame sprite,
\* half a turn of a 144-frame one)
TickElapsed == {250}
DragDeltas  == {0, 360}

ViewInit ==
    /\ img = Null
    /\ loadingImg = Null
    /\ isLoading = TRUE
    /\ bouncingAllowed = FALSE
    /\ timers = 0
    /\ hasDragged = FALSE
    /\ isDragging = FALSE
    /\ dragStartFrame = 0
    /\ currentFrame = 0
    /\ frameRef = 0
    /\ progressValue = 0
    /\ isBouncing = FALSE
    /\ bounceStart = FALSE
    /\ spinResult = [frame |-> 0, nextFrame |-> 1, blend |-> 0]
    /\ spinStart = FALSE
    /\ lastDraw = None

\* isVisible of LoadingErrorOverlay; the overlay is opaque and covers the
\* whole container, above the canvas
OverlayVisible == isLoading \/ isRenderingSprite \/ Truthy(renderError)

\* the canvas is rendered ({img && <canvas>}) and nothing covers it
ImageDisplayed == img # Null /\ ~OverlayVisible

\* BuildRender renders with props p: the fetch effect of useSpriteRender,
\* then the draw effects
ViewRender(p) ==
    /\ Render(p)
    /\ LET c == Commit(Snap,
                       Snapshot(img, spriteMetadata, isLoading, p,
                                progressValue, spinResult),
                       FALSE, FALSE, hasDragged, frameRef, lastDraw)
       IN  /\ frameRef' = c.frameRef
           /\ lastDraw' = c.lastDraw
    /\ UNCHANGED <<loadVars, dragVars, animVars>>

\* SpriteResolves whose load-sprite effect leaves a load in progress attached:
\* the handlers of the superseded source are not detached
SpriteResolvesKeepsLoad(i) ==
    /\ FetchResolves(i)
    /\ IF unmounted
       THEN UNCHANGED <<loadVars, frameRef, lastDraw>>
       ELSE LET c == Commit(Snap,
                            Snapshot(img, spriteMetadata', isLoading, props,
                                     progressValue, spinResult),
                            FALSE, FALSE, hasDragged, frameRef, lastDraw)
            IN  /\ img' = Null
                /\ isLoading' = TRUE
                /\ bouncingAllowed' = FALSE
                /\ loadingImg' = IF loadingImg # Null THEN loadingImg
                                 ELSE spriteSrc'
                /\ frameRef' = c.frameRef
                /\ lastDraw' = c.lastDraw
                /\ UNCHANGED timers
    /\ UNCHANGED <<dragVars, animVars>>

\* the render call of fetch i resolves: the commit with the new metadata and
\* source (its draw effects see the image of the previous render), in which
\* the load-sprite effect clears the image and starts loading the new source
SpriteResolves(i) ==
    /\ FetchResolves(i)
    /\ IF unmounted
       THEN UNCHANGED <<loadVars, frameRef, lastDraw>>
       ELSE LET c == Commit(Snap,
                            Snapshot(img, spriteMetadata', isLoading, props,
                                     progressValue, spinResult),
                            FALSE, FALSE, hasDragged, frameRef, lastDraw)
            IN  /\ img' = Null
                /\ isLoading' = TRUE
                /\ bouncingAllowed' = FALSE
                /\ loadingImg' = spriteSrc'
                /\ frameRef' = c.frameRef
                /\ lastDraw' = c.lastDraw
                /\ UNCHANGED timers
    /\ UNCHANGED <<dragVars, animVars>>

SpriteRejects(i, message) ==
    /\ FetchRejects(i, message)
    /\ UNCHANGED viewVars

\* ImageLoads of a viewer whose interaction latch is reset by each sprite load
ImageLoadsResetsLatch ==
    /\ ~unmounted
    /\ loadingImg # Null
    /\ img' = loadingImg
    /\ isLoading' = FALSE
    /\ loadingImg' = Null
    /\ timers' = timers + 1
    /\ hasDragged' = FALSE
    /\ LET c == Commit(Snap,
                       Snapshot(loadingImg, spriteMetadata, FALSE, props,
                                progressValue, spinResult),
                       FALSE, FALSE, FALSE, frameRef, lastDraw)
       IN  /\ frameRef' = c.frameRef
           /\ lastDraw' = c.lastDraw
    /\ UNCHANGED <<bouncingAllowed, isDragging, dragStartFrame, currentFrame,
                   animVars, hookVars>>

\* i.onload of the image being loaded
ImageLoads ==
    /\ ~unmounted
    /\ loadingImg # Null
    /\ img' = loadingImg
    /\ isLoading' = FALSE
    /\ loadingImg' = Null
    /\ timers' = timers + 1
    /\ LET c == Commit(Snap,
                       Snapshot(loadingImg, spriteMetadata, FALSE, props,
                                progressValue, spinResult),
                       FALSE, FALSE, hasDragged, frameRef, lastDraw)
       IN  /\ frameRef' = c.frameRef
           /\ lastDraw' = c.lastDraw
    /\ UNCHANGED <<bouncingAllowed, dragVars, animVars, hookVars>>

\* i.onerror of the image being loaded
ImageFails ==
    /\ ~unmounted
    /\ loadingImg # Null
    /\ img' = Null
    /\ isLoading' = FALSE
    /\ loadingImg' = Null
    /\ UNCHANGED <<bouncingAllowed, timers, frameRef, lastDraw, dragVars,
                   animVars, hookVars>>

\* a setTimeout(() => setBouncingAllowed(true), 2000) of onload fires
TimerFires ==
    /\ timers > 0
    /\ timers' = timers - 1
    /\ bouncingAllowed' = IF unmounted THEN bouncingAllowed ELSE TRUE
    /\ UNCHANGED <<img, loadingImg, isLoading, frameRef, lastDraw, dragVars,
                   animVars, hookVars>>

\* the enabled arguments of the two animation hooks
BounceEnabled == bouncingAllowed /\ props.animationMode = "bounce"
SpinEnabled   == bouncingAllowed /\ props.animationMode = "spin360"

\* one animation frame: the useAnimationFrame callbacks of
\* useBouncePatternProgress and useContinuousSpin, then the commit of the
\* state they set.  elapsedMs is the time since the driver's start; the
\* frame that starts a driver has elapsed time 0.
AnimationFrame(elapsedMs) ==
    /\ mounted
    /\ ~unmounted
    /\ LET bounce == BounceAt(IF bounceStart THEN elapsedMs ELSE 0)
           spin   == SpinAt(IF spinStart THEN elapsedMs ELSE 0, SpinDuration,
                            TotalOf(spriteMetadata))
       IN  /\ IF ~BounceEnabled
              THEN /\ bounceStart' = FALSE
                   /\ progressValue' = IF bounceStart THEN 0 ELSE progressValue
                   /\ isBouncing' = IF bounceStart THEN FALSE ELSE isBouncing
              ELSE /\ bounceStart' = TRUE
                   /\ progressValue' = bounce.value
                   /\ isBouncing' = bounce.isBouncing
           /\ IF ~SpinEnabled
              THEN /\ spinStart' = FALSE
                   /\ UNCHANGED spinResult
              ELSE /\ spinStart' = TRUE
                   /\ spinResult' = spin
    /\ LET c == Commit(Snap,
                       Snapshot(img, spriteMetadata, isLoading, props,
                                progressValue', spinResult'),
                       SpinEnabled, FALSE, hasDragged, frameRef, lastDraw)
       IN  /\ frameRef' = c.frameRef
           /\ lastDraw' = c.lastDraw
    /\ UNCHANGED <<loadVars, dragVars, hookVars>>

\* handleMouseDown / handleTouchStart with one finger on the canvas: startDrag
StartDrag ==
    /\ ~unmounted
    /\ props.interactive
    /\ ImageDisplayed
    /\ isDragging' = TRUE
    /\ dragStartFrame' = currentFrame
    /\ hasDragged' = TRUE
    /\ UNCHANGED <<currentFrame, frameRef, lastDraw, loadVars, animVars,
                   hookVars>>

\* a document mousemove / touchmove during a drag: handleDragMove and
\* onFrameChange
DragMove(deltaX) ==
    /\ ~unmounted
    /\ isDragging
    /\ img # Null
    /\ LET newFrame == calculateCircularFrame(dragStartFrame, deltaX,
                           MouseSensitivityTenths, TotalOf(spriteMetadata))
       IN  /\ currentFrame' = newFrame
           /\ frameRef' = newFrame
           /\ lastDraw' = Draw(Snap, newFrame)
    /\ UNCHANGED <<hasDragged, isDragging, dragStartFrame, loadVars, animVars,
                   hookVars>>

\* a document mouseup / touchend during a drag: endDrag
EndDrag ==
    /\ ~unmounted
    /\ isDragging
    /\ isDragging' = FALSE
    /\ UNCHANGED <<hasDragged, dragStartFrame, currentFrame, frameRef,
                   lastDraw, loadVars, animVars, hookVars>>

\* handleNativeWheel on the container: the zoom scale changes, the latch is
\* set, and the commit redraws with the new draw callback
Wheel ==
    /\ mounted
    /\ ~unmounted
    /\ props.interactive
    /\ hasDragged' = TRUE
    /\ LET c == Commit(Snap, Snap, FALSE, TRUE, TRUE, frameRef, lastDraw)
       IN  /\ frameRef' = c.frameRef
           /\ lastDraw' = c.lastDraw
    /\ UNCHANGED <<isDragging, dragStartFrame, currentFrame, loadVars,
                   animVars, hookVars>>

\* handleCanvasTouchStart with two fingers: handleZoomTouchStart reports a
\* pinch
Pinch ==
    /\ ~unmounted
    /\ props.interactive
    /\ ImageDisplayed
    /\ hasDragged' = TRUE
    /\ UNCHANGED <<isDragging, dragStartFrame, currentFrame, frameRef,
                   lastDraw, loadVars, animVars, hookVars>>

\* BuildRender unmounts: the cleanups of the effects
ViewUnmount ==
    /\ Unmount
    /\ loadingImg' = Null
    /\ UNCHANGED <<img, isLoading, bouncingAllowed, timers, frameRef, lastDraw,
                   dragVars, animVars>>

\* the props the embedding application renders the viewer with: two render
\* inputs of different geometry, each animation mode, interactive or not
ViewProps(options, animationMode, interactive) ==
    [MkProps(Undef, BaseParts, 1, options, Undef, 1)
        EXCEPT !.animationMode = animationMode, !.interactive = interactive]

ViewPropsPool ==
    {ViewProps(NoOptions, "bounce", TRUE),
     ViewProps(HighOptions, "bounce", TRUE),
     ViewProps(NoOptions, "spin360", TRUE),
     ViewProps(NoOptions, "bounce", FALSE),
     ViewProps(NoOptions, "spin360", FALSE)}

\* the message the render calls of the viewer fail with
ViewFailureMessages == {"Render job failed"}

ViewNext ==
    \/ \E p \in ViewPropsPool : ViewRender(p)
    \/ \E i \in 1..MaxFetches : SpriteResolves(i)
    \/ \E i \in 1..MaxFetches, m \in ViewFailureMessages : SpriteRejects(i, m)
    \/ ImageLoads
    \/ ImageFails
    \/ TimerFires
    \/ \E e \in TickElapsed : AnimationFrame(e)
    \/ StartDrag
    \/ \E dx \in DragDeltas : DragMove(dx)
    \/ EndDrag
    \/ Wheel
    \/ Pinch
    \/ ViewUnmount

-----------------------------------------------------------------------------
(* SpecMath: the pure functions of the viewer, each applied once to inputs *)
(* drawn from bounded sets.                                                *)

\* JavaScript Numbers in calculateCircularFrame: binary floating point,
\* rounded to nearest (ties to even) after every operation.  A Number is
\* carried as the integer value * 2^FractionBits.  IEEE 754 binary64 has a
\* 53-bit significand; the model keeps 17 bits, which rounds the decimal
\* sensitivities 0.1 and 0.2 in the same direction (their binary expansion
\* has period 4, and 53 = 17 mod 4).
SignificandBits == 17
FractionBits    == 20

RECURSIVE Pow2(_)
Pow2(n) == IF n = 0 THEN 1 ELSE 2 * Pow2(n - 1)

\* number of binary digits of n >= 0
RECURSIVE BitLen(_)
BitLen(n) == IF n = 0 THEN 0 ELSE 1 + BitLen(n \div 2)

Abs(n) == IF n < 0 THEN 0 - n ELSE n
Max(a, b) == IF a > b THEN a ELSE b

\* the integer nearest to a / b (b > 0), ties to the even one
RoundHalfEven(a, b) ==
    LET k == a \div b
        r == a - k * b
    IN  IF 2 * r < b THEN k
        ELSE IF 2 * r > b THEN k + 1
        ELSE IF k % 2 = 0 THEN k ELSE k + 1

\* the Number nearest to the exact value n * 2^-FractionBits
Fl(n) ==
    LET q == Pow2(Max(BitLen(Abs(n)) - SignificandBits, 0))
    IN  RoundHalfEven(n, q) * q

\* the Number a decimal literal a / b denotes
FromRatio(a, b) ==
    LET scaled == a * Pow2(FractionBits)
        q == Pow2(Max(BitLen(Abs(scaled) \div b) - SignificandBits, 0))
    IN  RoundHalfEven(scaled, b * q) * q

\* an integer as a Number
FromInt(k) == k * Pow2(FractionBits)

\* calculateCircularFrame (useSpriteScrubbing) on Numbers; deltaX is an
\* integer number of pixels
calculateCircularFrameNumber(startFrame, deltaX, sensitivity, totalFrames) ==
    LET frameDelta == Fl(deltaX * sensitivity)
        sum        == Fl(startFrame + frameDelta)
        newFrame   == JsRem(sum, FromInt(totalFrames))
    IN  IF newFrame < 0 THEN Fl(newFrame + FromInt(totalFrames)) ELSE newFrame

\* Math.round(a / b) for a >= 0, b > 0: halves go up
MathRound(a, b) == (2 * a + b) \div (2 * b)

\* the source rectangle drawFrame passes to ctx.drawImage for frame index
\* frameIdx of an image of the given size (frameW = img.width / cols,
\* frameH = img.height / rows)
SourceRect(width, height, cols, rows, total, frameIdx) ==
    LET n == frameIdx % total
        r == n \div cols
        c == n % cols
    IN  [sx |-> MathRound(c * width, cols), sy |-> MathRound(r * height, rows),
         sw |-> MathRound(width, cols), sh |-> MathRound(height, rows)]

\* Bounds of the model: the elapsed times (ms) the drivers are sampled at,
\* the image sizes, the drag displacements (px) and start frames (tenths)
MaxElapsed   == 12000
MaxImageSize == 30
MaxDelta     == 40
MaxStart     == 30

SpinDurations == {SpinDuration, 3000}
Geometries    == {Metadata(12, 6, 72), Metadata(12, 12, 144)}
ImageHeights  == {6, 9, 12, 21}
Sensitivities == {1, 2}         \* tenths: touch / mouse sensitivity 0.1, 0.2
Deltas        == (0 - MaxDelta)..MaxDelta \cup {7200, 0 - 7200}

BounceInputs == [elapsed : 0..MaxElapsed]
SpinInputs ==
    [elapsed : 0..MaxElapsed, duration : SpinDurations, totalFrames : {72, 144}]
CircularInputs ==
    [start : 0..MaxStart, deltaX : Deltas, sensitivity : Sensitivities,
     totalFrames : {72, 144}]
RectInputs ==
    {[width |-> w, height |-> h, meta |-> m, frameIdx |-> n] :
        w \in 1..MaxImageSize, h \in ImageHeights,
        m \in Geometries, n \in 0..143}

MathIdle ==
    /\ mathFn = "none"
    /\ mathArg = None
    /\ mathOut = None

MathInit ==
    /\ mathOut = None
    /\ \/ mathFn = "bounce" /\ mathArg \in BounceInputs
       \/ mathFn = "spin" /\ mathArg \in SpinInputs
       \/ mathFn = "circular" /\ mathArg \in CircularInputs
       \/ mathFn = "rect" /\ mathArg \in {a \in RectInputs :
                                             a.frameIdx < a.meta.totalFrames}

\* one animation frame of useBouncePatternProgress, enabled since elapsed ms
BounceTick ==
    /\ mathFn = "bounce" /\ mathOut = None
    /\ mathOut' = Some(BounceAt(mathArg.elapsed))
    /\ UNCHANGED <<mathFn, mathArg>>

\* one animation frame of useContinuousSpin, enabled since elapsed ms
SpinTick ==
    /\ mathFn = "spin" /\ mathOut = None
    /\ mathOut' = Some(SpinAt(mathArg.elapsed, mathArg.duration,
                              mathArg.totalFrames))
    /\ UNCHANGED <<mathFn, mathArg>>

\* one call of calculateCircularFrame
CircularFrame ==
    /\ mathFn = "circular" /\ mathOut = None
    /\ mathOut' = Some(calculateCircularFrameNumber(
                           FromRatio(mathArg.start, 10), mathArg.deltaX,
                           FromRatio(mathArg.sensitivity, 10),
                           mathArg.totalFrames))
    /\ UNCHANGED <<mathFn, mathArg>>

\* one call of drawFrame
DrawFrame ==
    /\ mathFn = "rect" /\ mathOut = None
    /\ mathOut' = Some(SourceRect(mathArg.width, mathArg.height,
                                  mathArg.meta.cols, mathArg.meta.rows,
                                  mathArg.meta.totalFrames, mathArg.frameIdx))
    /\ UNCHANGED <<mathFn, mathArg>>

MathNext ==
    \/ BounceTick
    \/ SpinTick
    \/ CircularFrame
    \/ DrawFrame

-----------------------------------------------------------------------------
(***************************************************************************)
(* SpecZoom: useZoomPan, called by BuildRender with initialScale: zoom and *)
(* the default minScale 0.5 and maxScale 2.5.  Scales are in hundredths,   *)
(* zoom factors in thousandths, touch distances in pixels.                 *)
(***************************************************************************)
minScale == 50
maxScale == 250

\* values of the zoom prop: the default 1, and one below and one above the
\* scale range
ZoomProps == {100, 30, 300}

WheelDeltas == {-100, 100}
DeltaModes == {0, 1}
PinchDistances == {0, 100, 300}

clamp(value, min, max) ==
    LET lo == IF value > min THEN value ELSE min
    IN  IF lo < max THEN lo ELSE max

\* deltaY in pixels for deltaMode 0 (pixels) and 1 (lines)
NormalizedDeltaY(deltaY, deltaMode) ==
    IF deltaMode = 1 THEN deltaY * 16 ELSE deltaY

\* Math.exp(-deltaY * 0.0015) in thousandths, for the deltas of WheelDeltas
\* in both delta modes
zoomFactor(deltaY) ==
    CASE deltaY = -100  -> 1162
      [] deltaY = 100   -> 861
      [] deltaY = -1600 -> 11023
      [] deltaY = 1600  -> 91

\* setScaleSafe(next): the part of the state it writes
setScaleSafe(next) ==
    LET clamped == clamp(next, minScale, maxScale)
    IN  IF clamped = scaleRef
        THEN UNCHANGED <<scale, scaleRef>>
        ELSE scaleRef' = clamped /\ scale' = clamped

ZoomIdle ==
    /\ zoom = 100
    /\ scale = 100
    /\ scaleRef = 100
    /\ isPinching = FALSE
    /\ pinchDataRef = [initialDistance |-> 0, initialScale |-> 100]

\* the first render: useState(initialScale), useRef(initialScale)
ZoomInit ==
    /\ zoom \in ZoomProps
    /\ scale = zoom
    /\ scaleRef = zoom
    /\ isPinching = FALSE
    /\ pinchDataRef = [initialDistance |-> 0, initialScale |-> 100]

\* handleWheel, called by BuildRender's native wheel listener
handleWheel(deltaY, deltaMode) ==
    /\ setScaleSafe((scaleRef * zoomFactor(NormalizedDeltaY(deltaY, deltaMode)))
                    \div 1000)
    /\ UNCHANGED <<zoom, isPinching, pinchDataRef>>

\* handleTouchStart with two touches at the given distance
PinchStart(distance) ==
    /\ IF distance = 0
       THEN UNCHANGED <<isPinching, pinchDataRef>>
       ELSE /\ pinchDataRef' = [initialDistance |-> distance,
                                initialScale |-> scaleRef]
            /\ isPinching' = TRUE
    /\ UNCHANGED <<zoom, scale, scaleRef>>

\* handleMove (window touchmove while pinching) with two touches
PinchMove(distance) ==
    /\ isPinching
    /\ IF distance = 0 \/ pinchDataRef.initialDistance = 0
       THEN UNCHANGED <<scale, scaleRef>>
       ELSE setScaleSafe((pinchDataRef.initialScale * distance)
                         \div pinchDataRef.initialDistance)
    /\ UNCHANGED <<zoom, isPinching, pinchDataRef>>

\* handleEnd (touchend or touchcancel leaving fewer than two touches)
PinchEnd ==
    /\ isPinching
    /\ isPinching' = FALSE
    /\ UNCHANGED <<zoom, scale, scaleRef, pinchDataRef>>

\* reset, run by BuildRender's effect when spriteSrc or the display size
\* changes
resetZoom ==
    /\ scaleRef' = zoom
    /\ scale' = zoom
    /\ UNCHANGED <<zoom, isPinching, pinchDataRef>>

\* a render with another zoom prop: reset is a new callback, so the same
\* effect runs it
ZoomPropChanges(z) ==
    /\ z # zoom
    /\ zoom' = z
    /\ scaleRef' = z
    /\ scale' = z
    /\ UNCHANGED <<isPinching, pinchDataRef>>

ZoomNext ==
    \/ \E d \in WheelDeltas, m \in DeltaModes : handleWheel(d, m)
    \/ \E d \in PinchDistances : PinchStart(d)
    \/ \E d \in PinchDistances : PinchMove(d)
    \/ PinchEnd
    \/ resetZoom
    \/ \E z \in ZoomProps : ZoomPropChanges(z)

-----------------------------------------------------------------------------
(* The specifications.  Each leaves the other parts' variables at their    *)
(* initial values.                                                         *)

EqIdle ==
    /\ eqPc = "idle"
    /\ eqA = PartsInput(NoRequest, NoOptions)
    /\ eqB = PartsInput(NoRequest, NoOptions)
    /\ eqResult = FALSE
    /\ eqPartsResult = FALSE

ApiIdle ==
    /\ apiPc = "idle"
    /\ apiCall = [fn |-> "renderBuild", format |-> Undef,
                  pollIntervalMs |-> None, timeoutMs |-> None]
    /\ now = 0
    /\ start = 0
    /\ createResponse = None
    /\ jobId = Undef
    /\ lastStatus = None
    /\ pollCount = 0
    /\ apiResult = Pending

Init == HookInit /\ ViewInit /\ EqIdle /\ ApiIdle /\ MathIdle /\ ZoomIdle
Next == HookNext /\ UNCHANGED <<eqVars, apiVars, viewVars, mathVars, zoomVars>>
Spec == Init /\ [][Next]_vars

InitApi == ApiInit /\ EqIdle /\ HookInit /\ ViewInit /\ MathIdle /\ ZoomIdle
NextApi == ApiNext /\ UNCHANGED <<eqVars, hookVars, viewVars, mathVars, zoomVars>>
SpecApi == InitApi /\ [][NextApi]_vars

InitEq == EqInit /\ HookInit /\ ViewInit /\ ApiIdle /\ MathIdle /\ ZoomIdle
NextEq == EqNext /\ UNCHANGED <<hookVars, apiVars, viewVars, mathVars, zoomVars>>
SpecEq == InitEq /\ [][NextEq]_vars

InitViewer == HookInit /\ ViewInit /\ EqIdle /\ ApiIdle /\ MathIdle /\ ZoomIdle
NextViewer == ViewNext /\ UNCHANGED <<eqVars, apiVars, mathVars, zoomVars>>
SpecViewer == InitViewer /\ [][NextViewer]_vars

\* the hook as in Spec, also rendered without parts and without share code
IncompletePropsPool ==
    PropsPool \cup {NoPartsProps(Undef), NoPartsProps("experimental")}

NextIncomplete ==
    /\ \/ \E p \in IncompletePropsPool : Render(p)
       \/ \E i \in 1..MaxFetches : FetchResolves(i)
       \/ \E i \in 1..MaxFetches, m \in FailureMessages : FetchRejects(i, m)
       \/ Unmount
    /\ UNCHANGED <<eqVars, apiVars, viewVars, mathVars, zoomVars>>

SpecIncomplete == Init /\ [][NextIncomplete]_vars

InitMath == MathInit /\ HookInit /\ ViewInit /\ EqIdle /\ ApiIdle /\ ZoomIdle
NextMath ==
    MathNext /\ UNCHANGED <<eqVars, hookVars, apiVars, viewVars, zoomVars>>
SpecMath == InitMath /\ [][NextMath]_vars

InitZoom ==
    ZoomInit /\ HookInit /\ ViewInit /\ EqIdle /\ ApiIdle /\ MathIdle
NextZoom ==
    ZoomNext /\ UNCHANGED <<eqVars, hookVars, apiVars, viewVars, mathVars>>
SpecZoom == InitZoom /\ [][NextZoom]_vars

\* SpecApi with every pending request answered and every pending timer fired
\* eventually
SpecApiFair == SpecApi /\ WF_vars(NextApi)

-----------------------------------------------------------------------------
(* Properties.                                                             *)

Settles(i) ==
    /\ i \in 1..Len(fetches)
    /\ fetches[i].state = "inflight"
    /\ fetches'[i].state # "inflight"

\* C1: the completion of a fetch that is no longer the most recently issued
\* one never changes spriteSrc, spriteMetadata, renderError or
\* isRenderingSprite.
C1_StaleCompletionIsNoOp ==
    [][\A i \in 1..MaxFetches :
          (Settles(i) /\ i < Len(fetches)) =>
              UNCHANGED <<spriteSrc, spriteMetadata, renderError,
                          isRenderingSprite>>]_vars

RenderStep == mounted' # mounted \/ props' # props

\* C2: a render issues a fetch exactly when its input is not equal
\* (areInputsEqual) to the input of the most recently issued fetch; the first
\* render always fetches, and a render with an equal input issues none.
C2_FetchIffInputUnequal ==
    [][LET input  == renderInput(props')
           issued == Len(fetches') = Len(fetches) + 1
       IN  /\ Len(fetches') \in {Len(fetches), Len(fetches) + 1}
           /\ issued => /\ RenderStep
                        /\ ~areInputsEqual(previousInputRef, input)
                        /\ previousInputRef' = Some(input)
           /\ (RenderStep /\ ~issued) =>
                        /\ areInputsEqual(previousInputRef, input)
                        /\ UNCHANGED previousInputRef
           /\ (~mounted /\ mounted') => issued]_vars

\* a re-render with an equal input that is another object, with a new
\* apiConfig identity, has issued no second fetch
C2_Witness ==
    /\ Len(fetches) = 1
    /\ IsSome(previousInputRef)
    /\ previousInputRef[1] # renderInput(props)
    /\ areInputsEqual(previousInputRef, renderInput(props))

SameIdSets(a, b) ==
    \A c \in Categories :
        Range(ArrOrEmpty(a.parts, c)) = Range(ArrOrEmpty(b.parts, c))

\* C3: arePartsEqual(a, b) is true exactly when, for every category, the set
\* of part IDs of a equals that of b (order ignored, duplicates collapsed, a
\* missing category read as empty).
C3_PartsEqualIffSameIdSets ==
    (eqPc = "done" /\ eqA.type = "parts" /\ eqB.type = "parts") =>
        (eqPartsResult <=> SameIdSets(eqA.parts, eqB.parts))

\* C4: two inputs of the same variant naming the same parts (or share code)
\* that differ in exactly one of width, height, profile, showGrid,
\* cameraOffsetX, cameraZoom, frameQuality are unequal.
C4_OneScalarDifferenceIsUnequal ==
    (/\ eqPc = "done"
     /\ eqA.type = eqB.type
     /\ eqA.shareCode = eqB.shareCode
     /\ eqA.parts.parts = eqB.parts.parts
     /\ Cardinality(DifferingScalars(eqA, eqB)) = 1) => ~eqResult

\* C5: a fetch issued by a render whose props carry a non-empty shareCode
\* (and parts) sends POST /render-by-share-code with that shareCode, whatever
\* the mode flag is.
C5_ShareCodeTakesPrecedence ==
    [][(Len(fetches') > Len(fetches) /\ Truthy(props'.shareCode)) =>
          lastRequest' = Some([method |-> "POST",
                               endpoint |-> "/render-by-share-code",
                               shareCode |-> props'.shareCode,
                               parts |-> None])]_vars

\* with shareCode, parts and mode 'experimental' given, the one fetch issued is
\* a share-code job
C5_Witness ==
    /\ Truthy(props.shareCode)
    /\ props.mode = "experimental"
    /\ Len(fetches) = 1
    /\ fetches[1].state = "inflight"
    /\ lastRequest[1].endpoint = "/render-by-share-code"

\* C6: the call resolves only after a poll returned completed, with
\* sprite_url if present else url for a sprite request and video_url if
\* present else url for any other request.
C6_ResolvesWithFormatUrl ==
    apiResult.kind = "resolved" =>
        /\ apiPc = "done"
        /\ pollCount >= 1
        /\ IsSome(lastStatus)
        /\ lastStatus[1].status = "completed"
        /\ Truthy(apiResult.value)
        /\ IF apiCall.format = "sprite"
           THEN /\ apiResult.value =
                     IF Truthy(lastStatus[1].sprite_url)
                     THEN lastStatus[1].sprite_url ELSE lastStatus[1].url
                /\ apiResult.value # "V"
           ELSE /\ apiResult.value =
                     IF Truthy(lastStatus[1].video_url)
                     THEN lastStatus[1].video_url ELSE lastStatus[1].url
                /\ apiResult.value # "S"

\* a sprite request resolved with the generic url although video_url was set
C6_Witness ==
    /\ apiResult = Resolved("U")
    /\ apiCall.format = "sprite"
    /\ lastStatus[1].video_url = "V"
    /\ ~Truthy(lastStatus[1].sprite_url)

ExpectedPollInterval ==
    IF IsSome(apiCall.pollIntervalMs) THEN apiCall.pollIntervalMs[1] ELSE 1500

ExpectedTimeout ==
    IF IsSome(apiCall.timeoutMs) THEN apiCall.timeoutMs[1] ELSE 120000

\* C7: after a status of completed or error, or a detected timeout, no further
\* status request is issued; a further request follows only a queued or
\* processing status, and only pollIntervalMs (default 1500 ms) later.
C7_NoPollAfterTerminal ==
    [][/\ pollCount' \in {pollCount, pollCount + 1}
       /\ (pollCount' = pollCount + 1 /\ pollCount >= 1) =>
             /\ apiPc = "sleeping"
             /\ IsSome(lastStatus)
             /\ lastStatus[1].status \in {"queued", "processing"}
             /\ now - start <= ExpectedTimeout
             /\ now' - now >= ExpectedPollInterval
       /\ (IsSome(lastStatus') /\ lastStatus'[1].status \in {"completed", "error"}) =>
             (apiPc' = "done" /\ pollCount' = pollCount)
       /\ apiPc = "done" => (apiPc' = "done" /\ pollCount' = pollCount)]_vars

\* a call with the default interval that polled several times and then saw
\* the job complete
C7_Witness ==
    /\ apiPc = "done"
    /\ apiCall.pollIntervalMs = None
    /\ pollCount >= 3
    /\ apiResult.kind = "resolved"

UsableUrl(body) ==
    IF apiCall.format = "sprite"
    THEN Truthy(body.sprite_url) \/ Truthy(body.url)
    ELSE Truthy(body.video_url) \/ Truthy(body.url)

\* C8: a status of error fails the call with the server's message, or with
\* "Render job failed" when there is none; a status of completed without a
\* usable URL for the requested format fails the call.
C8_ErrorStatusFails ==
    (apiPc = "done" /\ IsSome(lastStatus)) =>
        /\ lastStatus[1].status = "error" =>
              apiResult = Rejected(IF lastStatus[1].error \in {Null, Undef, ""}
                                   THEN "Render job failed"
                                   ELSE lastStatus[1].error)
        /\ (lastStatus[1].status = "completed" /\ ~UsableUrl(lastStatus[1])) =>
              apiResult = Rejected("Render job completed but no URL returned")

\* an error status without a message has failed the call with the generic one
C8_Witness ==
    /\ apiPc = "done"
    /\ IsSome(lastStatus)
    /\ lastStatus[1].status = "error"
    /\ lastStatus[1].error = Null
    /\ apiResult = Rejected("Render job failed")

CreationFailed ==
    /\ IsSome(createResponse)
    /\ \/ createResponse[1].http < 200
       \/ createResponse[1].http > 299
       \/ createResponse[1].job_id \in {Undef, Null, ""}

\* C9: a job-creation response that is non-2xx or has no job_id fails the call
\* and no status request is issued.
C9_NoPollWithoutJob ==
    CreationFailed =>
        /\ apiPc = "done"
        /\ apiResult.kind = "rejected"
        /\ pollCount = 0
        /\ lastStatus = None

\* a 200 creation response without job_id has failed the call
C9_Witness ==
    /\ IsSome(createResponse)
    /\ createResponse[1].http = 200
    /\ createResponse[1].job_id = Undef
    /\ apiPc = "done"
    /\ apiResult.kind = "rejected"

TimedOut ==
    apiResult = Rejected("Timed out waiting for render job to complete")

\* the messages of the errors thrown for an HTTP answer that is not usable
TransportErrors ==
    {"Build not found", "Render job not found",
     "Create render job failed: missing job_id in response",
     "Create render job failed: 404 Not Found",
     "Create render job failed: 500 Internal Server Error",
     "Get render job status failed: 500 Internal Server Error"}

\* C10: with every request answered, the call settles; it goes on polling only
\* while the time since job creation does not exceed timeoutMs (default
\* 120000 ms), and rejects with the timeout error when a non-terminal status
\* arrives after that; a call that saw no completed or error status and no
\* HTTP failure ends with the timeout error.
C10_CallSettles ==
    /\ <>(apiPc = "done")
    /\ [](apiPc = "sleeping" => now - start <= ExpectedTimeout)
    /\ [](TimedOut => /\ apiPc = "done"
                      /\ now - start > ExpectedTimeout
                      /\ lastStatus[1].status \in {"queued", "processing"})
    /\ []((apiPc = "done" /\ ~TimedOut) =>
              \/ IsSome(lastStatus) /\ lastStatus[1].status \in {"completed", "error"}
              \/ apiResult.kind = "rejected" /\ apiResult.value \in TransportErrors)

\* a call with the default timeout that polled every 1500 ms until the
\* timeout was detected
C10_Witness ==
    /\ TimedOut
    /\ apiCall.timeoutMs = None
    /\ pollCount = 82

\* the composition / quality fields of a render input, by name
FieldNames == ScalarNames \cup {"gridSettings"}

Present(input, name) ==
    IF name = "gridSettings" THEN IsSome(input.gridSettings)
    ELSE Scalar(input, name) # Undef

BodyField(body, name) ==
    CASE name = "width"         -> body.width
      [] name = "height"        -> body.height
      [] name = "profile"       -> body.profile
      [] name = "showGrid"      -> body.showGrid
      [] name = "cameraOffsetX" -> body.cameraOffsetX
      [] name = "cameraZoom"    -> body.cameraZoom
      [] name = "frameQuality"  -> body.frameQuality

Forwarded(input, body, name) ==
    IF name = "gridSettings" THEN body.gridSettings = input.gridSettings
    ELSE BodyField(body, name) = Scalar(input, name)

\* C11: on each render path (experimental POST, parts job, share-code job)
\* every one of width, height, profile, showGrid, cameraOffsetX, cameraZoom,
\* gridSettings, frameQuality that the render input carries is in the JSON
\* body of the request with the same value.
C11_FieldsForwarded ==
    IsSome(lastBody) =>
        \A name \in FieldNames :
            Present(previousInputRef[1], name) =>
                Forwarded(previousInputRef[1], lastBody[1], name)

\* the object URLs created so far: one per resolved experimental fetch
CreatedUrls ==
    {BlobUrls[i] : i \in {j \in 1..Len(fetches) :
        /\ fetches[j].endpoint = "/render-build-experimental"
        /\ fetches[j].state = "resolved"}}

\* C13: no object URL is revoked twice, an object URL that is no longer the
\* current source has been revoked once, and after unmount every object URL
\* created has been revoked exactly once.
C13_ObjectUrlRevokedOnce ==
    /\ \A u \in Range(BlobUrls) : revoked[u] <= 1
    /\ \A u \in CreatedUrls : (unmounted \/ u # spriteSrc) => revoked[u] = 1

\* the fetch that published the source an image was loaded from
FetchOfImage(image) ==
    CHOOSE i \in 1..Len(fetches) : PublishedSrc(fetches[i], i) = image

\* C12: a draw that uses a loaded image uses the cols, rows and totalFrames
\* published by the fetch that produced that image; never an old image with
\* the geometry of a newer fetch.
C12_DrawUsesOwnGeometry ==
    IsSome(lastDraw) =>
        LET d == lastDraw[1]
            m == PublishedMetadata(fetches[FetchOfImage(d.img)])
        IN  /\ d.cols = m.cols
            /\ d.rows = m.rows
            /\ d.totalFrames = m.totalFrames

\* C14: the manual-interaction flag is set by a drag start, a wheel event or a
\* pinch on an interactive viewer, and once true it stays true in every later
\* state of the instance (new render inputs, sprite loads, errors, unmount).
C14_LatchStep ==
    /\ hasDragged => hasDragged'
    /\ (~isDragging /\ isDragging') => hasDragged'
    /\ (StartDrag \/ Wheel \/ Pinch) => hasDragged'

C14_LatchPermanent == [][C14_LatchStep]_vars

\* the latch is still set on a viewer that is no longer interactive and shows
\* the image of a second fetch
C14_Witness == hasDragged /\ ~props.interactive /\ img = JobUrls[2]

\* one animation frame of the idle drivers
Tick == \E e \in TickElapsed : AnimationFrame(e)

\* a drag has moved the frame and has ended (currentFrame is written by the
\* drag moves only)
DragEnded == hasDragged /\ ~isDragging /\ currentFrame # 0

\* C15: after a drag has ended, no bounce tick and no spin tick changes the
\* current frame or redraws, for the rest of the instance's life, also after
\* later re-renders; the frame holds at its last value.
C15_TickStep ==
    (DragEnded /\ Tick) => (frameRef' = frameRef /\ lastDraw' = lastDraw)

C15_FrameHoldsAfterDrag == [][C15_TickStep]_vars

\* the frame the driver selected by animationMode puts out in the next state
SelectedDriverFrame ==
    IF props.animationMode = "spin360"
    THEN spinResult'.frame * 10
    ELSE ((progressValue' * TotalOf(spriteMetadata)) \div 500)
             % (TotalOf(spriteMetadata) * 10)

\* C16: at most one of the two idle drivers is enabled and running, the
\* enabled one is the one animationMode selects, and each draw made on an
\* animation frame uses the output of the selected driver only.
C16_DriverStep ==
    /\ ~(BounceEnabled' /\ SpinEnabled')
    /\ ~(bounceStart' /\ spinStart')
    /\ BounceEnabled' => props'.animationMode = "bounce"
    /\ SpinEnabled' => props'.animationMode = "spin360"
    /\ Tick =>
          /\ bounceStart' = BounceEnabled
          /\ spinStart' = SpinEnabled
          /\ (lastDraw' # lastDraw \/ frameRef' # frameRef) =>
                /\ frameRef' = SelectedDriverFrame
                /\ lastDraw'[1].frame = SelectedDriverFrame

C16_OneDriver == [][C16_DriverStep]_vars

\* the spin driver runs and its frame is the one drawn
C16_Witness ==
    /\ props.animationMode = "spin360"
    /\ spinStart
    /\ spinResult.frame = 1
    /\ IsSome(lastDraw)
    /\ lastDraw[1].frame = 10
    /\ frameRef = 10

\* the output of the selected idle driver changes on this animation frame
DriverOutputChanges ==
    \/ SpinEnabled
    \/ BounceEnabled /\ progressValue' # progressValue

\* C17: with interactive = false no mouse, touch or wheel handler is attached:
\* the dragging flag and the interaction latch never become true; and with an
\* image loaded and animation allowed, every animation frame on which the
\* selected idle driver puts out a value sets and draws that driver's frame,
\* whether or not the latch was set while the viewer was interactive.
C17_NonInteractiveStep ==
    ~props.interactive =>
        /\ isDragging' => isDragging
        /\ hasDragged' => hasDragged
        /\ ~ENABLED StartDrag /\ ~ENABLED Wheel /\ ~ENABLED Pinch
        /\ (Tick /\ img # Null /\ DriverOutputChanges) =>
              /\ frameRef' = SelectedDriverFrame
              /\ lastDraw'[1].frame = SelectedDriverFrame

C18_ErrorStep ==
    Truthy(renderError) =>
        LET input == renderInput(props')
        IN  /\ ~RenderStep => Len(fetches') = Len(fetches)
            /\ (RenderStep /\ areInputsEqual(previousInputRef, input)) =>
                  /\ fetches' = fetches
                  /\ renderError' = renderError
            /\ (RenderStep /\ ~areInputsEqual(previousInputRef, input)) =>
                  /\ Len(fetches') = Len(fetches) + 1
                  /\ fetches'[Len(fetches')].state = "inflight"
                  /\ previousInputRef' = Some(input)
                  /\ renderError' = Null
                  /\ isRenderingSprite'

C18_NoRetryAfterFailure == [][C18_ErrorStep]_vars

\* the first fetch failed and a render with a different input has cleared the
\* error and started the second fetch
C18_Witness ==
    /\ Len(fetches) = 2
    /\ fetches[1].state = "rejected"
    /\ fetches[2].state = "inflight"
    /\ renderError = Null
    /\ isRenderingSprite

\* C19: when the fetched sprite fails to decode as an image, renderError
\* becomes a non-null message and the error overlay is shown, as for a fetch
\* error.
C19_DecodeStep ==
    ImageFails => (Truthy(renderError') /\ OverlayVisible')

C19_DecodeFailureIsError == [][C19_DecodeStep]_vars

\* {img && <canvas .../>}: the canvas with the sprite is part of the output
CanvasRendered == img # Null

\* C20: whenever renderError is set no image is part of what the viewer
\* renders: the error replaces the image shown before, it is not laid over it.
C20_ErrorReplacesImage == Truthy(renderError) => ~CanvasRendered

\* C21: when a render input not equal to the applied one arrives, the viewer
\* clears the current image, shows Loading and disables the idle animation
\* before the new fetch resolves; the interaction latch keeps its value.
C21_NewInputStep ==
    (RenderStep /\ Len(fetches') = Len(fetches) + 1) =>
        /\ img' = Null
        /\ OverlayVisible' /\ renderError' = Null
        /\ ~bouncingAllowed'
        /\ hasDragged' = hasDragged

C21_NewInputClearsImage == [][C21_NewInputStep]_vars

\* C22: a render input that has neither parts nor shareCode is rejected as an
\* error before any network request is issued: no request without parts and
\* without share code is ever sent.
C22_IncompleteInputRejected ==
    IsSome(lastRequest) =>
        (IsSome(lastRequest[1].parts) \/ Truthy(lastRequest[1].shareCode))

\* the React state of the instance (useSpriteRender, BuildRender, the
\* scrubber and the idle drivers)
instanceState ==
    <<spriteSrc, spriteMetadata, renderError, isRenderingSprite, img,
      isLoading, bouncingAllowed, isDragging, dragStartFrame, progressValue,
      isBouncing, spinResult>>

\* C23: after the instance has unmounted, or after its pending load has been
\* discarded for a newer one, no pending completion callback (fetch
\* resolution, image onload / onerror, the delayed animation-enable timer)
\* changes the instance's state.
C23_InertStep ==
    /\ unmounted => UNCHANGED instanceState
    /\ (timers' = timers - 1 /\ loadingImg # Null) => UNCHANGED instanceState

C23_CallbacksInertAfterTeardown == [][C23_InertStep]_vars

\* C24: at drag start the scrubber records as the drag's start frame the frame
\* in effect (displayed) at that instant, also when an idle driver has moved
\* the frame since the last drag, so a first move with zero displacement
\* leaves the displayed frame unchanged.
C24_DragStartStep ==
    (~isDragging /\ isDragging') =>
        /\ dragStartFrame' = frameRef
        /\ calculateCircularFrame(dragStartFrame', 0, MouseSensitivityTenths,
                                  TotalOf(spriteMetadata)) = frameRef

C24_DragStartsAtDisplayedFrame == [][C24_DragStartStep]_vars

\* the values (thousandths) the bounce cycle has at the sampled times
BounceSamples ==
    {<<0, 0>>, <<250, 500>>, <<500, 1000>>, <<750, 500>>, <<1000, 0>>,
     <<2000, 0>>, <<2999, 0>>}

\* C25: with the bounce driver enabled at time 0, its value at elapsed time t
\* (taken mod 3000 ms) is t/500 for t < 500, 1 - (t-500)/500 for
\* 500 <= t < 1000 and 0 for 1000 <= t < 3000; isBouncing is true exactly when
\* t mod 3000 < 1000; at 0, 250, 500, 750, 1000, 2000, 2999 ms the values are
\* 0, 0.5, 1, 0.5, 0, 0, 0.
C25_BounceCycle ==
    (mathFn = "bounce" /\ IsSome(mathOut)) =>
        LET t == mathArg.elapsed % 3000
            o == mathOut[1]
        IN  /\ t < 500 => o.value = 2 * t
            /\ (500 =< t /\ t < 1000) => o.value = 2000 - 2 * t
            /\ 1000 =< t => o.value = 0
            /\ o.isBouncing <=> t < 1000
            /\ \A s \in BounceSamples :
                  mathArg.elapsed = s[1] => o.value = s[2]

\* the driver sampled in its second cycle, on the way up
C25_Witness ==
    /\ mathFn = "bounce"
    /\ mathArg.elapsed = 3250
    /\ IsSome(mathOut)
    /\ mathOut[1] = [value |-> 500, isBouncing |-> TRUE]

\* C26: on every tick while enabled the continuous-spin driver puts out
\* frame = floor((elapsed mod duration) / duration * totalFrames) mod
\* totalFrames, nextFrame = (frame + 1) mod totalFrames and blend = the
\* fractional part of the exact frame; frame and nextFrame are in
\* [0, totalFrames) and blend in [0, 1); duration 10000 ms, 72 frames and
\* elapsed 5000 ms give frame 36, nextFrame 37, blend 0.
C26_SpinOutput ==
    (mathFn = "spin" /\ IsSome(mathOut)) =>
        LET a == mathArg
            o == mathOut[1]
            e == a.elapsed % a.duration
        IN  /\ o.frame * a.duration =< e * a.totalFrames
            /\ e * a.totalFrames < (o.frame + 1) * a.duration
            /\ o.nextFrame = (IF o.frame = a.totalFrames - 1 THEN 0
                              ELSE o.frame + 1)
            /\ o.blend * a.duration =<
                   1000 * (e * a.totalFrames - o.frame * a.duration)
            /\ 1000 * (e * a.totalFrames - o.frame * a.duration) <
                   (o.blend + 1) * a.duration
            /\ o.frame \in 0..(a.totalFrames - 1)
            /\ o.nextFrame \in 0..(a.totalFrames - 1)
            /\ o.blend \in 0..999
            /\ (a.duration = 10000 /\ a.totalFrames = 72 /\ a.elapsed = 5000)
                  => o = [frame |-> 36, nextFrame |-> 37, blend |-> 0]

\* the driver sampled on the last frame of a turn: the next frame is frame 0
C26_Witness ==
    /\ mathFn = "spin"
    /\ IsSome(mathOut)
    /\ mathOut[1].frame = mathArg.totalFrames - 1
    /\ mathOut[1].nextFrame = 0
    /\ mathOut[1].blend > 0

\* C27: calculateCircularFrame(start, delta, sensitivity, total) returns
\* (start + delta * sensitivity) mod total normalized into [0, total), for
\* every start in [0, total), every positive or negative displacement, every
\* sensitivity > 0 and total > 0; total 72, start 0, delta 7200, sensitivity
\* 0.1 gives 0.
C27_CircularFrameInRange ==
    (mathFn = "circular" /\ IsSome(mathOut)) =>
        /\ 0 =< mathOut[1]
        /\ mathOut[1] < FromInt(mathArg.totalFrames)
        /\ (mathArg.totalFrames = 72 /\ mathArg.start = 0
            /\ mathArg.deltaX = 7200 /\ mathArg.sensitivity = 1)
              => mathOut[1] = 0

\* C28: for every image size, every {cols, rows} and every frame index in
\* [0, totalFrames), the source rectangle drawFrame samples has integer x, y,
\* width and height with x + width <= imageWidth and y + height <=
\* imageHeight, also when the image size is not a multiple of cols or rows.
C28_SourceRectInsideImage ==
    (/\ mathFn = "rect" /\ IsSome(mathOut)
     /\ mathArg.frameIdx < mathArg.meta.totalFrames) =>
        LET o == mathOut[1]
        IN  /\ o.sx \in Nat /\ o.sy \in Nat /\ o.sw \in Nat /\ o.sh \in Nat
            /\ o.sx + o.sw =< mathArg.width
            /\ o.sy + o.sh =< mathArg.height

\* C29: in every reachable state the viewer's zoom scale lies within
\* [minScale, maxScale] (0.5 to 2.5 by default), after any sequence of wheel
\* events, pinch gestures and zoom resets, and for any value of the initial
\* zoom prop.
C29_ScaleWithinBounds ==
    /\ minScale =< scale /\ scale =< maxScale
    /\ minScale =< scaleRef /\ scaleRef =< maxScale

\* C30: after a successful sprite fetch for which the server reports no
\* metadata (no render endpoint reports any), the published spriteMetadata is
\* {cols 12, rows 12, totalFrames 144} when the input's frameQuality is high
\* and {12, 6, 72} otherwise, on the share-code, the async and the synchronous
\* path alike, and totalFrames <= cols * rows.
C30_DefaultedStep ==
    \A i \in 1..MaxFetches :
        (FetchResolves(i) /\ ~unmounted) =>
            /\ spriteMetadata' =
                   Some(Metadata(12, fetches[i].rows, 12 * fetches[i].rows))
            /\ spriteMetadata'[1].totalFrames =<
                   spriteMetadata'[1].cols * spriteMetadata'[1].rows

C30_DefaultedMetadata == [][C30_DefaultedStep]_vars

\* C31: while dragging is true, every move event sets the current frame to
\* calculateCircularFrame(startFrame, currentX - startX, sensitivity, total)
\* and redraws it at once, and no idle-driver tick writes the current frame
\* until the drag ends.
C31_DragStep ==
    /\ \A dx \in DragDeltas :
           DragMove(dx) =>
               /\ frameRef' = calculateCircularFrame(dragStartFrame, dx,
                                  MouseSensitivityTenths,
                                  TotalOf(spriteMetadata))
               /\ lastDraw' = Draw(Snap, frameRef')
    /\ (isDragging /\ Tick) => frameRef' = frameRef

C31_DragOwnsFrame == [][C31_DragStep]_vars

\* C32: disabling the bounce driver returns its output to exactly value 0 and
\* isBouncing false and clears its clock (at the animation frame that sees it
\* disabled), and re-enabling it starts a new 3 s cycle at elapsed 0 instead
\* of resuming the earlier one: when the driver becomes enabled its clock is
\* clear, and the first frame of a clear clock outputs the cycle's start.
C32_BounceStep ==
    /\ (Tick /\ ~BounceEnabled) =>
           progressValue' = 0 /\ ~isBouncing' /\ ~bounceStart'
    /\ (~BounceEnabled /\ BounceEnabled') => ~bounceStart'
    /\ (Tick /\ BounceEnabled /\ ~bounceStart) =>
           /\ progressValue' = BounceAt(0).value
           /\ isBouncing' = BounceAt(0).isBouncing
           /\ bounceStart'

C32_BounceRestarts == [][C32_BounceStep]_vars

\* C33: a change of totalFrames or duration while the spin is enabled takes
\* effect on the following ticks without resetting the spin's start time,
\* and after the spin is disabled and re-enabled the first tick outputs
\* frame 0: when the spin becomes enabled its start time is clear, and the
\* first tick of a clear start time outputs frame 0.
C33_SpinStep ==
    /\ (SpinEnabled /\ SpinEnabled' /\ ~Tick) => spinStart' = spinStart
    /\ \A e \in TickElapsed :
           (AnimationFrame(e) /\ SpinEnabled /\ spinStart) =>
               spinResult' = SpinAt(e, SpinDuration, TotalOf(spriteMetadata))
    /\ (~SpinEnabled /\ SpinEnabled') => ~spinStart'
    /\ (Tick /\ SpinEnabled /\ ~spinStart) => spinResult'.frame = 0

C33_SpinRestarts == [][C33_SpinStep]_vars


\* C34: two render inputs that differ only in gridSettings are equal exactly
\* when the two gridSettings have the same value for every field, regardless
\* of the order in which the fields were written.
C34_GridSettingsByValue ==
    (eqPc = "done" /\ eqA \in EqInputsG /\ eqB \in EqInputsG) =>
        (eqResult <=>
            \A f \in GridFields :
                GridField(GridOrEmpty(eqA), f) = GridField(GridOrEmpty(eqB), f))

\* a render fetch of the instance is still in flight
FetchInFlight == \E i \in 1..Len(fetches) : fetches[i].state = "inflight"

\* C35: whenever at least one render fetch of the (mounted) instance is still
\* in flight, isRenderingSprite is true and the loading overlay is visible,
\* including when an earlier overlapping fetch of the same instance has
\* already settled.
C35_LoadingWhileInFlight ==
    (FetchInFlight /\ ~unmounted) => (isRenderingSprite /\ OverlayVisible)


\* C36: a failed fetch (transport error, job error, not-found, missing URL,
\* missing job_id or timeout) of the mounted instance changes only renderError
\* (to the failure message) and isRenderingSprite (to false): spriteSrc and
\* spriteMetadata keep their values and no object URL is revoked.
C36_FailureStep ==
    \A i \in 1..Len(fetches) :
        (/\ ~unmounted
         /\ i \in 1..Len(fetches')
         /\ fetches[i].state = "inflight"
         /\ fetches'[i].state = "rejected") =>
            /\ renderError' \in FailureMessages
            /\ ~isRenderingSprite'
            /\ UNCHANGED <<spriteSrc, spriteMetadata, revoked,
                           previousInputRef, mounted, props, unmounted>>

C37_AnimationOnlyWithImage ==
    (bouncingAllowed /\ ~unmounted) =>
        (img # Null /\ ~isLoading /\ loadingImg = Null)


\* C38: the poll loop issues its first status request immediately after job
\* creation (at least one poll happens even with timeoutMs 0), and the
\* timeout is evaluated only after a non-terminal poll response, so a
\* completed or error status observed after the timeout has already elapsed
\* still decides the outcome of the call.
C38_PollStep ==
    /\ (apiPc = "creating" /\ apiPc' = "polling") =>
           (pollCount' = 1 /\ start' = now')
    /\ TimedOut' => pollCount' >= 1
    /\ \A resp \in StatusResponses, d \in Latencies :
           (PollResponds(resp, d) /\ Ok(resp.http)) =>
               /\ resp.body.status = "completed" =>
                      apiResult' =
                          IF Truthy(FinalUrl(apiCall, resp.body))
                          THEN Resolved(FinalUrl(apiCall, resp.body))
                          ELSE Rejected("Render job completed but no URL returned")
               /\ resp.body.status = "error" =>
                      apiResult' = Rejected(Or(resp.body.error,
                                               "Render job failed"))
               /\ TimedOut' =>
                      /\ resp.body.status \in {"queued", "processing"}
                      /\ now' - start > timeoutMs(apiCall)

C38_TimeoutAfterNonTerminalPoll == [][C38_PollStep]_vars

\* a call with timeoutMs 0 whose first poll answered "completed" after the
\* timeout had elapsed, and resolved
C38_Witness ==
    /\ apiPc = "done"
    /\ apiCall.timeoutMs = Some(0)
    /\ pollCount = 1
    /\ now - start > timeoutMs(apiCall)
    /\ IsSome(lastStatus) /\ lastStatus[1].status = "completed"
    /\ apiResult.kind = "resolved"


====
